---- MODULE Spec2Model ----
(***************************************************************************)
(* State-machine model of rag-memory-pg-mcp: RAGKnowledgeGraphManager      *)
(* (src/src/manager.js) on top of a relational store reached through the   *)
(* Supabase client.                                                        *)
(*                                                                         *)
(* Every `await this.supabase...` of the manager is one atomic storage     *)
(* statement; a tool call is a sequence of such statements and calls that  *)
(* are in flight together interleave between statements.                   *)
(*                                                                         *)
(* The store is the schema of README.md (lines 150-204) on the columns the *)
(* manager uses: rag_entities.name is unique, rag_documents.id is the      *)
(* primary key, rag_chunks.document_id references rag_documents(id),       *)
(* rag_entity_embeddings.entity_id references rag_entities(id), and the    *)
(* two embedding columns are VECTOR(384).  No reference names an ON DELETE *)
(* action, so the delete of a referenced row is refused, as is the insert  *)
(* of a row whose reference has no target and the write of a vector of     *)
(* another length.  The README declares its references of                  *)
(* rag_relationships on from_entity / to_entity, columns the manager       *)
(* never names: it reads and writes source_entity / target_entity, on      *)
(* which nothing is declared, and rag_chunk_entities has no declaration in *)
(* the repository; both are modelled without references.                   *)
(*                                                                         *)
(* A statement fails when it violates one of these constraints.  The       *)
(* statements that take a set of outcomes as a parameter may also fail for *)
(* a reason outside the schema (connection, permission, timeout) under the *)
(* specifications that pass StorageOutcomes.                               *)
(***************************************************************************)
EXTENDS Integers, Sequences, FiniteSets, TLC

\* ------------------------------------------------------------------ bounds
MaxBatch == 2       \* longest argument list of a batch call
MaxEntityIds == 3   \* entity rows ever inserted in one behaviour
MaxRelIds == 2      \* relationship rows ever inserted in one behaviour
MaxObs == 3         \* longest observation list of an entity row
NumProcs == 2       \* tool calls in flight together
MaxRaceBatch == 1   \* longest argument list of a call that races with another
MaxTextLen == 14    \* longest document content
MaxChunkSize == 4   \* largest maxChunkSize and overlap a caller passes
MaxDocLen == 5      \* longest content passed to processDocument
MaxEmbeddingRows == 4  \* entity embedding rows ever inserted in one behaviour
MaxLimit == 1       \* largest limit a caller passes to hybridSearch

\* chunk rows ever inserted in one behaviour: room for every call slot to
\* chunk the longest document one character at a time
MaxChunkIds == NumProcs * MaxTextLen

\* ------------------------------------------------------------ input domains
Names == {"React", "JavaScript"}
RelTypes == {"BUILT_WITH", "USES"}
ObsValues == {"o1", "o2"}
Procs == 1..NumProcs

\* Sequences over S of length lo..hi
SeqsOf(S, lo, hi) == UNION {[1..n -> S] : n \in lo..hi}

\* The entity objects a caller passes to createEntities.  "React" is given a
\* type and an observation, "JavaScript" leaves entityType and observations
\* undefined (the empty string and the empty list here).
EntityInputs ==
    {[name |-> "React", entityType |-> "TECHNOLOGY", observations |-> <<o>>] :
        o \in ObsValues}
    \cup {[name |-> "JavaScript", entityType |-> "", observations |-> <<>>]}
\* The relations a caller passes: two types on the same ordered pair, the
\* reverse direction, and a relation from an entity to itself.
RelationInputs ==
    {[from |-> "React", to |-> "JavaScript", relationType |-> t] : t \in RelTypes}
    \cup {[from |-> "JavaScript", to |-> "React", relationType |-> "BUILT_WITH"],
          [from |-> "JavaScript", to |-> "JavaScript", relationType |-> "USES"]}
ObservationInputs ==
    {[entityName |-> n, contents |-> c] : n \in Names, c \in SeqsOf(ObsValues, 1, 1)}
\* The deletions a caller passes: one stored value, a value no entity holds,
\* and two values at once.
DeletionInputs ==
    {[entityName |-> n, observations |-> o] :
        n \in Names, o \in {<<"o1">>, <<"o3">>, <<"o2", "o1">>}}

\* The inputs of observation calls that race with one another: one value
\* added to, or deleted from, the list of "React"
RaceObservationInputs ==
    {o \in ObservationInputs : o.entityName = "React"}
RaceDeletionInputs ==
    {[entityName |-> "React", observations |-> <<o>>] : o \in ObsValues}

\* The inputs of calls that race with one another
RaceEntityInputs == {e \in EntityInputs : e.observations \in {<<>>, <<"o1">>}}
RaceRelationInputs ==
    {[from |-> "React", to |-> "JavaScript", relationType |-> "BUILT_WITH"]}
RaceNames == Names

\* Document contents: the prefixes of "AAAA BBBB CCCC AAAA BBBB CCCC ..."
TextPattern ==
    <<"A", "A", "A", "A", " ", "B", "B", "B", "B", " ", "C", "C", "C", "C", " ">>
TextOfLen(n) == [k \in 1..n |-> TextPattern[((k - 1) % Len(TextPattern)) + 1]]
Texts == {TextOfLen(n) : n \in 0..MaxTextLen}
DocIds == {"doc1", "doc2"}

\* The options a caller passes to chunkDocument: both numbers, or neither
ChunkOptionInputs ==
    {[given |-> TRUE, maxChunkSize |-> m, overlap |-> o] :
        m \in 1..MaxChunkSize, o \in 0..MaxChunkSize}
    \cup {[given |-> FALSE, maxChunkSize |-> 0, overlap |-> 0]}

\* The documents and options a caller passes to processDocument: contents of
\* zero to MaxDocLen characters, and options whose overlap leaves a step of two
\* characters or more
DocTexts == {TextOfLen(n) : n \in 0..MaxDocLen}
ProcessOptionInputs ==
    {o \in ChunkOptionInputs :
        ~o.given \/ (o.maxChunkSize >= MaxChunkSize - 1
                       /\ o.overlap < o.maxChunkSize - 1)}
\* What a storage statement comes back with: it is carried out unless the
\* schema refuses it, or it may also fail for a reason outside the schema
Answered == {"ok"}
StorageOutcomes == {"ok", "error"}
\* error.message of a statement that failed for a reason outside the schema
StorageErrorMessage == "storage error"

\* The documents hybridSearch runs on: "AAAA BBBB CCCC", "aaa", "bbb" and
\* "zz", under three ids
Letters(ch, n) == [k \in 1..n |-> ch]
Space == <<" ">>
SearchDocIds == DocIds \cup {"doc3"}
SearchTexts ==
    {TextOfLen(14), Letters("a", 3), Letters("b", 3), Letters("z", 2)}
\* The queries: "", "a to", "  ", "ab<tab>cd", "BBB", " ccc ", "aaa bbb ccc",
\* "aaa aaa bbb" and "ccc bbb aaa ccc bbb aaa"
QueryInputs ==
    {<<>>,
     <<"a", " ", "t", "o">>,
     Space \o Space,
     <<"a", "b", "\t", "c", "d">>,
     Letters("B", 3),
     Space \o Letters("c", 3) \o Space,
     Letters("a", 3) \o Space \o Letters("b", 3) \o Space \o Letters("c", 3),
     Letters("a", 3) \o Space \o Letters("a", 3) \o Space \o Letters("b", 3),
     Letters("c", 3) \o Space \o Letters("b", 3) \o Space \o Letters("a", 3)
        \o Space \o Letters("c", 3) \o Space \o Letters("b", 3) \o Space
        \o Letters("a", 3)}
\* The queries of getDetailedContext: "react", "a", "BBB" and "aaa bbb ccc"
ContextQueryInputs ==
    {<<"r", "e", "a", "c", "t">>,
     <<"a">>,
     Letters("B", 3),
     Letters("a", 3) \o Space \o Letters("b", 3) \o Space \o Letters("c", 3)}
\* The relations of the graph it runs on: one in each direction
ContextRelationInputs ==
    {r \in RelationInputs : r.from # r.to /\ r.relationType = "BUILT_WITH"}
\* The documents it runs on: "AAAA BBBB CCCC" and "bbb"
ContextTexts == {TextOfLen(14), Letters("b", 3)}
\* The limits: 0 when the caller leaves the limit out
LimitInputs == 0..MaxLimit

\* The argument lists of a batch call: at most n items
Batches(S, n) == SeqsOf(S, 0, n)

\* -------------------------------------------------------------------- state
VARIABLES
    rag_entities,           \* rows [id, name, entity_type, observations]
    rag_relationships,      \* rows [id, source_entity, target_entity, relation_type]
    rag_entity_embeddings,  \* rows [id, entity_id, embedding, dims,
                            \*       embedding_text]
    rag_documents,          \* rows [id, content, created_at]
    rag_chunks,             \* rows [id, document_id, chunk_index, content,
                            \*       start_pos, end_pos, embedding, dims]
    nextEntityId,           \* gen_random_uuid() of rag_entities
    nextRelId,              \* gen_random_uuid() of rag_relationships
    nextChunkId,            \* gen_random_uuid() of rag_chunks
    rag_chunk_entities,     \* rows [chunk_id, entity_id]
    modelInitialized,       \* this.modelInitialized
    mode,                   \* this.mode: "local" or "openai"
    openaiClient,           \* this.openaiClient is set
    provider,               \* the embedding provider: "up", "down", "malformed",
                            \* "flaky" or "offsize"
    content_tsv,            \* rag_documents has the tsvector column and index
                            \* of supabase-fts-setup.sql
    calls                   \* per call in flight: its position and its locals

vars == <<rag_entities, rag_relationships, rag_entity_embeddings,
          rag_documents, rag_chunks, nextEntityId, nextRelId, nextChunkId,
          rag_chunk_entities,
          modelInitialized, mode, openaiClient, provider, content_tsv, calls>>

graphVars == <<rag_entities, rag_relationships, rag_entity_embeddings,
               nextEntityId, nextRelId>>
docVars == <<rag_documents, rag_chunks, nextChunkId>>
linkVars == <<rag_chunk_entities>>
storeVars == <<graphVars, docVars, linkVars>>

envVars == <<modelInitialized, mode, openaiClient, provider, content_tsv>>

\* What generateEmbedding returns: null, undefined, or a vector, of which the
\* model keeps the length
Null == [kind |-> "null", dims |-> 0]
Undefined == [kind |-> "undefined", dims |-> 0]
Vector(dims) == [kind |-> "vector", dims |-> dims]

\* What a provider call comes back with: it throws, or it returns an object
\* that may lack `data`, whose `data` may be empty, and whose first item may
\* lack `embedding`
NoResponse == [throws |-> FALSE, hasData |-> FALSE, data |-> <<>>]

\* No row: the `data: null` of a select that matched nothing.
NoEntity == [id |-> 0, observations |-> <<>>]

Idle ==
    [op |-> "idle", pc |-> "idle", args |-> <<>>, i |-> 0,
     results |-> <<>>, deleted |-> <<>>, notFound |-> <<>>, errors |-> <<>>,
     entity |-> NoEntity, sourceEntity |-> 0, targetEntity |-> 0,
     documentId |-> "", maxChunkSize |-> 0, overlap |-> 0, text |-> <<>>,
     startPos |-> 0, chunkIndex |-> 0, chunks |-> <<>>, thrown |-> "",
     content |-> <<>>, steps |-> <<>>, success |-> TRUE, error |-> "",
     chunksCreated |-> -1, embeddedChunks |-> -1, totalChunks |-> -1,
     rows |-> {}, embeddedCount |-> 0,
     response |-> NoResponse, embedding |-> Null,
     query |-> <<>>, keywords |-> <<>>, limit |-> 0, queried |-> FALSE,
     strategy |-> "", data |-> <<>>,
     includeEntities |-> FALSE, documents |-> <<>>, entities |-> <<>>,
     relationships |-> <<>>, embeddingText |-> <<>>,
     toolsMode |-> "", tools |-> {}, tool |-> "", method |-> "",
     isError |-> FALSE,
     chunkIds |-> <<>>, k |-> 0, linkedCount |-> 0,
     chunkId |-> 0, selected |-> {}, terms |-> <<>>]

\* ------------------------------------------------------- storage statements
\* .from('rag_entities').select(...).eq('name', name).single()
SelectEntityByName(name) ==
    LET rows == {e \in rag_entities : e.name = name}
    IN IF Cardinality(rows) = 1
       THEN LET e == CHOOSE e \in rows : TRUE
            IN [id |-> e.id, observations |-> e.observations]
       ELSE NoEntity

\* the unique constraint on rag_entities.name: error code of an insert
InsertEntityError_None(name) == ""
InsertEntityError(name) ==
    IF \E e \in rag_entities : e.name = name THEN "23505" ELSE ""

\* the message of a unique-constraint violation
UniqueViolationMessage == "duplicate key value violates unique constraint"

\* error.code === '23505' ? 'Entity already exists' : error.message
CreateErrorText_Raw(code) == UniqueViolationMessage
CreateErrorText(code) ==
    IF code = "23505" THEN "Entity already exists" ELSE UniqueViolationMessage

\* !sourceEntity || !targetEntity
EndpointMissing_SourceOnly(sourceEntity, targetEntity) == sourceEntity = 0
EndpointMissing(sourceEntity, targetEntity) == sourceEntity = 0 \/ targetEntity = 0

\* entity.entityType || 'CONCEPT'
EntityTypeOrDefault(entityType) == IF entityType = "" THEN "CONCEPT" ELSE entityType

\* .from('rag_relationships').delete().or(source_entity.eq.id,target_entity.eq.id)
RelsNotTouching_SourceOnly(rels, id) == {r \in rels : r.source_entity # id}
RelsNotTouching(rels, id) ==
    {r \in rels : ~(r.source_entity = id \/ r.target_entity = id)}

\* .delete().eq('source_entity', s).eq('target_entity', t).eq('relation_type', ty)
RelsNotMatching_AnyType(rels, s, t, ty) ==
    {r \in rels : ~(r.source_entity = s /\ r.target_entity = t)}
RelsNotMatching(rels, s, t, ty) ==
    {r \in rels : ~(r.source_entity = s /\ r.target_entity = t /\ r.relation_type = ty)}

\* currentObs.filter(obs => !deletion.observations.includes(obs))
RECURSIVE FilterObs_FirstOnly(_, _)
FilterObs_FirstOnly(currentObs, listed) ==
    IF currentObs = <<>> THEN <<>>
    ELSE IF \E k \in 1..Len(listed) : listed[k] = Head(currentObs)
         THEN Tail(currentObs)
         ELSE <<Head(currentObs)>> \o FilterObs_FirstOnly(Tail(currentObs), listed)
RECURSIVE FilterObs(_, _)
FilterObs(currentObs, listed) ==
    IF currentObs = <<>> THEN <<>>
    ELSE LET rest == FilterObs(Tail(currentObs), listed)
         IN IF \E k \in 1..Len(listed) : listed[k] = Head(currentObs)
            THEN rest
            ELSE <<Head(currentObs)>> \o rest

\* ------------------------------------------------------------ call plumbing
\* A call slot takes a new tool call once its previous call has returned.
CanStart(p) == calls[p].pc \in {"idle", "done"}

\* A call begins: the first item is processed next, or the empty loop ends.
Begin(p, opName, args, firstPc) ==
    calls' = [calls EXCEPT ![p] =
        [Idle EXCEPT !.op = opName, !.args = args, !.i = 1,
                     !.pc = IF args = <<>> THEN "done" ELSE firstPc]]

\* The loop moves on to the next item of the batch (or returns).
NextItem_ReturnsAfterFirst(c, firstPc) ==
    [c EXCEPT !.i = c.i + 1, !.pc = "done",
              !.entity = NoEntity, !.sourceEntity = 0, !.targetEntity = 0]
NextItem(c, firstPc) ==
    [c EXCEPT !.i = c.i + 1,
              !.pc = IF c.i + 1 > Len(c.args) THEN "done" ELSE firstPc,
              !.entity = NoEntity, !.sourceEntity = 0, !.targetEntity = 0]

\* ------------------------------------------------------------ createEntities
createEntities(p, batches) ==
    /\ CanStart(p)
    /\ \E entities \in batches :
          Begin(p, "createEntities", entities, "ce_insert")
    /\ UNCHANGED <<storeVars, envVars>>

\* .from('rag_entities').insert({...}).select().single() and the result pushed
createEntities_insert(p) ==
    LET c == calls[p]
        entity == c.args[c.i]
        error == InsertEntityError(entity.name)
    IN /\ c.pc = "ce_insert"
       /\ IF error # ""
          THEN /\ calls' = [calls EXCEPT ![p] =
                     NextItem([c EXCEPT !.results = Append(@,
                         [success |-> FALSE, entity |-> entity.name,
                          error |-> CreateErrorText(error), id |-> 0])],
                       "ce_insert")]
               /\ UNCHANGED <<rag_entities, nextEntityId>>
          ELSE /\ nextEntityId <= MaxEntityIds
               /\ rag_entities' = rag_entities \cup
                     {[id |-> nextEntityId, name |-> entity.name,
                       entity_type |-> EntityTypeOrDefault(entity.entityType),
                       observations |-> entity.observations]}
               /\ nextEntityId' = nextEntityId + 1
               /\ LET pushed == [c EXCEPT !.results = Append(@,
                         [success |-> TRUE, entity |-> entity.name,
                          error |-> "", id |-> nextEntityId])]
                  IN calls' = [calls EXCEPT ![p] =
                        IF modelInitialized
                        THEN [pushed EXCEPT !.pc = "ce_embed",
                                            !.entity = [id |-> nextEntityId,
                                                        observations |-> entity.observations]]
                        ELSE NextItem(pushed, "ce_insert")]
       /\ UNCHANGED <<docVars, linkVars,
                      rag_relationships, rag_entity_embeddings, nextRelId,
                      envVars>>

\* ---------------------------------------------------------- generateEmbedding
\* 'Xenova/all-MiniLM-L12-v2' with { pooling: 'mean', normalize: true }
LocalModelDimensions == 384

\* the request of this.openaiClient.embeddings.create
OpenAIRequest == [model |-> "text-embedding-3-small", dimensions |-> 384]

\* mode === 'openai' && openaiClient: the remote provider is called
UsesOpenAI == mode = "openai" /\ openaiClient

\* the length of an answer that is not of the length asked for: the one that
\* is tried is that of a text-embedding-3-small vector that is not shortened
OffSizeDimensions == 1536

\* The answers of the provider.  One that is "up" returns what was asked for:
\* the remote API one item whose embedding has the requested dimensions, the
\* local pipeline the pooled output of the model.  One that is "down" throws
\* (timeout, unreachable, failed inference).  One that is "malformed" returns
\* an object that lacks a field the code reads.  A "flaky" one does either of
\* the first two.  One that is "offsize" returns a vector of another length:
\* an endpoint that ignores `dimensions`, a pipeline whose output is not the
\* pooled vector of that model.
Answer(dims) ==
    [throws |-> FALSE, hasData |-> TRUE,
     data |-> <<[hasEmbedding |-> TRUE, dims |-> dims]>>]
WellFormed ==
    Answer(IF UsesOpenAI THEN OpenAIRequest.dimensions ELSE LocalModelDimensions)
OffSize == Answer(OffSizeDimensions)
Thrown == [NoResponse EXCEPT !.throws = TRUE]
Malformed ==
    {NoResponse} \cup
    (IF UsesOpenAI
     THEN {[NoResponse EXCEPT !.hasData = TRUE],
           [NoResponse EXCEPT !.hasData = TRUE,
                              !.data = <<[hasEmbedding |-> FALSE, dims |-> 0]>>]}
     ELSE {})
ProviderResponses ==
    CASE provider = "up" -> {WellFormed}
      [] provider = "down" -> {Thrown}
      [] provider = "malformed" -> Malformed
      [] provider = "offsize" -> {OffSize}
      [] OTHER -> {WellFormed, Thrown}

\* generateEmbedding(text) given the provider's answer: null when the model is
\* not initialized; inside the try block `response.data[0].embedding` or
\* `Array.from(output.data)`, returned as it is, whatever its length, where
\* reading a property of undefined and Array.from(undefined) throw a
\* TypeError; null from the catch block
GenerateEmbedding(response) ==
    IF ~modelInitialized THEN Null
    ELSE IF response.throws \/ ~response.hasData THEN Null
    ELSE IF UsesOpenAI
         THEN IF response.data = <<>> THEN Null
              ELSE IF response.data[1].hasEmbedding
                   THEN Vector(response.data[1].dims)
                   ELSE Undefined
         ELSE Vector(response.data[1].dims)

\* a direct call of manager.generateEmbedding(text)
generateEmbedding(p, text) ==
    /\ CanStart(p)
    /\ \E response \in ProviderResponses :
          calls' = [calls EXCEPT ![p] =
             [Idle EXCEPT !.op = "generateEmbedding", !.text = text,
                          !.response = IF modelInitialized THEN response
                                       ELSE NoResponse,
                          !.embedding = GenerateEmbedding(response),
                          !.pc = "done"]]
    /\ UNCHANGED <<storeVars, envVars>>

\* The text that is embedded for an entity, as the pieces that a space
\* separates.  createEntities builds it with the template
\* `${data.name} ${data.entity_type} ${data.observations.join(' ')}`, whose
\* last piece is the empty string when there is no observation;
\* generateEntityEmbeddingText joins the name, the type and the observations.
InlineEmbeddingText(name, entity_type, observations) ==
    <<name, entity_type>> \o (IF observations = <<>> THEN <<"">> ELSE observations)
generateEntityEmbeddingText(entity) ==
    <<entity.name, IF entity.entityType # "" THEN entity.entityType ELSE "CONCEPT">>
        \o entity.observations
\* The embedding_text of a row written without that column
NullText == <<>>

\* `embedding VECTOR(384)` of rag_chunks and rag_entity_embeddings: the column
\* takes null and vectors of 384 numbers, and the write of a vector of
\* another length is refused
ColumnDimensions == 384
VectorColumnError_Unchecked(embedding) == ""
VectorColumnError(embedding) ==
    IF embedding.kind = "vector" /\ embedding.dims # ColumnDimensions
    THEN "expected 384 dimensions"
    ELSE ""

\* `entity_id UUID REFERENCES rag_entities(id)` of rag_entity_embeddings: the
\* write of a row whose entity is not stored is refused
EntityReferenceError(entity_id) ==
    IF \E e \in rag_entities : e.id = entity_id THEN ""
    ELSE "insert or update on table \"rag_entity_embeddings\" violates foreign key constraint"

\* the error of the upsert below, "" when the store carries it out
UpsertEntityEmbeddingError(entity_id, embedding) ==
    IF EntityReferenceError(entity_id) # "" THEN EntityReferenceError(entity_id)
    ELSE VectorColumnError(embedding)

\* .from('rag_entity_embeddings').upsert({ entity_id, embedding, ... }): the
\* row carries no id, so nothing conflicts and a row with a fresh id is
\* inserted; an embedding that is undefined is left out of the row and stored
\* as null; a row the store refuses is not written
UpsertEntityEmbedding(entity_id, embedding, embedding_text) ==
    IF UpsertEntityEmbeddingError(entity_id, embedding) # ""
    THEN rag_entity_embeddings
    ELSE rag_entity_embeddings \cup
        {[id |-> Cardinality(rag_entity_embeddings) + 1, entity_id |-> entity_id,
          embedding |-> IF embedding.kind = "undefined" THEN "null"
                        ELSE embedding.kind,
          dims |-> embedding.dims,
          embedding_text |-> embedding_text]}

\* `const embedding = await this.generateEmbedding(embeddingText)`: the
\* provider answers; `if (embedding)` lets a vector through to the upsert and
\* ends the item on null and on undefined
createEntities_embed(p) ==
    LET c == calls[p]
        entity == c.args[c.i]
        embeddingText == InlineEmbeddingText(entity.name,
                                              EntityTypeOrDefault(entity.entityType),
                                              entity.observations)
    IN /\ c.pc = "ce_embed"
       /\ \E response \in ProviderResponses :
             LET embedding == GenerateEmbedding(response)
                 d == [c EXCEPT !.embeddingText = embeddingText]
             IN calls' = [calls EXCEPT ![p] =
                   IF embedding.kind = "vector"
                   THEN [d EXCEPT !.embedding = embedding, !.pc = "ce_upsert"]
                   ELSE NextItem(d, "ce_insert")]
       /\ UNCHANGED <<storeVars, envVars>>

\* .from('rag_entity_embeddings').upsert({ entity_id, embedding }) of the
\* vector the call holds; the result of the statement is not read
createEntities_upsert(p) ==
    LET c == calls[p]
    IN /\ c.pc = "ce_upsert"
       /\ rag_entity_embeddings' =
             UpsertEntityEmbedding(c.entity.id, c.embedding, NullText)
       /\ calls' = [calls EXCEPT ![p] =
             NextItem([c EXCEPT !.embedding = Null], "ce_insert")]
       /\ UNCHANGED <<docVars, linkVars,
                      rag_entities, rag_relationships, nextEntityId, nextRelId,
                      envVars>>

\* ----------------------------------------------------------- createRelations
createRelations(p, batches) ==
    /\ CanStart(p)
    /\ \E relations \in batches :
          Begin(p, "createRelations", relations, "cr_source")
    /\ UNCHANGED <<storeVars, envVars>>

\* select('id').eq('name', relation.from).single()
createRelations_source(p) ==
    LET c == calls[p]
    IN /\ c.pc = "cr_source"
       /\ calls' = [calls EXCEPT ![p] =
             [c EXCEPT !.sourceEntity = SelectEntityByName(c.args[c.i].from).id,
                       !.pc = "cr_target"]]
       /\ UNCHANGED <<storeVars, envVars>>

\* select('id').eq('name', relation.to).single(), then the not-found check
createRelations_target(p) ==
    LET c == calls[p]
        relation == c.args[c.i]
        targetEntity == SelectEntityByName(relation.to).id
    IN /\ c.pc = "cr_target"
       /\ calls' = [calls EXCEPT ![p] =
             IF EndpointMissing(c.sourceEntity, targetEntity)
             THEN NextItem([c EXCEPT !.results = Append(@,
                      [success |-> FALSE, relation |-> relation,
                       error |-> "Source or target entity not found"])],
                    "cr_source")
             ELSE [c EXCEPT !.targetEntity = targetEntity, !.pc = "cr_insert"]]
       /\ UNCHANGED <<storeVars, envVars>>

\* .from('rag_relationships').insert({...}) and the result pushed: a failure
\* with error.message when the statement failed
createRelations_insert(p, outcomes) ==
    LET c == calls[p]
        relation == c.args[c.i]
    IN /\ c.pc = "cr_insert"
       /\ \E outcome \in outcomes :
             IF outcome = "error"
             THEN /\ calls' = [calls EXCEPT ![p] =
                        NextItem([c EXCEPT !.results = Append(@,
                            [success |-> FALSE, relation |-> relation,
                             error |-> StorageErrorMessage])],
                          "cr_source")]
                  /\ UNCHANGED <<rag_relationships, nextRelId>>
             ELSE /\ nextRelId <= MaxRelIds
                  /\ rag_relationships' = rag_relationships \cup
                        {[id |-> nextRelId, source_entity |-> c.sourceEntity,
                          target_entity |-> c.targetEntity,
                          relation_type |-> relation.relationType]}
                  /\ nextRelId' = nextRelId + 1
                  /\ calls' = [calls EXCEPT ![p] =
                        NextItem([c EXCEPT !.results = Append(@,
                            [success |-> TRUE, relation |-> relation,
                             error |-> ""])],
                          "cr_source")]
       /\ UNCHANGED <<docVars, linkVars,
                      rag_entities, rag_entity_embeddings, nextEntityId,
                      envVars>>

\* ----------------------------------------------------------- addObservations
\* const updatedObservations = [...entity.observations, ...obs.contents]
UpdatedObservations_ContentsOnly(entity, contents) == contents
UpdatedObservations(entity, contents) == entity.observations \o contents

addObservations(p, batches) ==
    /\ CanStart(p)
    /\ \E observations \in batches :
          Begin(p, "addObservations", observations, "ao_find")
    /\ UNCHANGED <<storeVars, envVars>>

\* select('id, observations').eq('name', obs.entityName).single()
addObservations_find(p) ==
    LET c == calls[p]
        obs == c.args[c.i]
        entity == SelectEntityByName(obs.entityName)
    IN /\ c.pc = "ao_find"
       /\ calls' = [calls EXCEPT ![p] =
             IF entity.id = 0
             THEN NextItem([c EXCEPT !.results = Append(@,
                      [success |-> FALSE, entity |-> obs.entityName,
                       error |-> "Entity not found", added |-> 0])],
                    "ao_find")
             ELSE [c EXCEPT !.entity = entity, !.pc = "ao_update"]]
       /\ UNCHANGED <<storeVars, envVars>>

\* .update({ observations: [...entity.observations, ...obs.contents] }).eq('id', id)
addObservations_update(p) ==
    LET c == calls[p]
        obs == c.args[c.i]
        updatedObservations == UpdatedObservations(c.entity, obs.contents)
    IN /\ c.pc = "ao_update"
       /\ Len(updatedObservations) <= MaxObs
       /\ rag_entities' =
             {IF e.id = c.entity.id
              THEN [e EXCEPT !.observations = updatedObservations] ELSE e :
                 e \in rag_entities}
       /\ calls' = [calls EXCEPT ![p] =
             NextItem([c EXCEPT !.results = Append(@,
                 [success |-> TRUE, entity |-> obs.entityName,
                  error |-> "", added |-> Len(obs.contents)])],
               "ao_find")]
       /\ UNCHANGED <<docVars, linkVars,
                      rag_relationships, rag_entity_embeddings, nextEntityId,
                      nextRelId, envVars>>

\* ------------------------------------------------------------ deleteEntities
deleteEntities(p, batches) ==
    /\ CanStart(p)
    /\ \E entityNames \in batches :
          Begin(p, "deleteEntities", entityNames, "de_find")
    /\ UNCHANGED <<storeVars, envVars>>

\* select('id').eq('name', name).single(); notFound.push(name) if no row
deleteEntities_find(p) ==
    LET c == calls[p]
        name == c.args[c.i]
        entity == SelectEntityByName(name)
    IN /\ c.pc = "de_find"
       /\ calls' = [calls EXCEPT ![p] =
             IF entity.id = 0
             THEN NextItem([c EXCEPT !.notFound = Append(@, name)], "de_find")
             ELSE [c EXCEPT !.entity = entity, !.pc = "de_relationships"]]
       /\ UNCHANGED <<storeVars, envVars>>

\* .from('rag_relationships').delete().or(source_entity.eq.id,target_entity.eq.id)
deleteEntities_relationships(p) ==
    LET c == calls[p]
    IN /\ c.pc = "de_relationships"
       /\ rag_relationships' = RelsNotTouching(rag_relationships, c.entity.id)
       /\ calls' = [calls EXCEPT ![p] = [c EXCEPT !.pc = "de_entity"]]
       /\ UNCHANGED <<docVars, linkVars,
                      rag_entities, rag_entity_embeddings, nextEntityId, nextRelId,
                      envVars>>

\* `entity_id UUID REFERENCES rag_entities(id)` of rag_entity_embeddings names
\* no ON DELETE action: the delete of an entity row that an embedding row
\* references is refused, and error.message is the store's
DeleteEntityError_NoReference(entity_id) == ""
DeleteEntityError(entity_id) ==
    IF \E r \in rag_entity_embeddings : r.entity_id = entity_id
    THEN "update or delete on table \"rag_entities\" violates foreign key constraint"
    ELSE ""

\* The rows of rag_chunk_entities once an entity row is deleted.  The
\* repository declares nothing on that table; the logical schema of the
\* specification gives it a unique (chunk_id, entity_id) pair and no
\* reference, and the storage layer is without cascade: its rows stay.
ChunkEntitiesAfterDelete(entity_id) == rag_chunk_entities

\* .from('rag_entities').delete().eq('id', entity.id), then
\* errors.push({ entity: name, error: deleteError.message }) when the
\* statement failed and deleted.push(name) when it did not
deleteEntities_entity(p, outcomes) ==
    LET c == calls[p]
        name == c.args[c.i]
        refused == DeleteEntityError(c.entity.id)
    IN /\ c.pc = "de_entity"
       /\ \E outcome \in outcomes :
             LET deleteError == IF refused # "" THEN refused
                                ELSE IF outcome = "error" THEN StorageErrorMessage
                                ELSE ""
             IN IF deleteError # ""
                THEN /\ calls' = [calls EXCEPT ![p] =
                           NextItem([c EXCEPT !.errors = Append(@,
                               [entity |-> name, error |-> deleteError])],
                             "de_find")]
                     /\ UNCHANGED <<rag_entities, rag_chunk_entities>>
                ELSE /\ rag_entities' = {e \in rag_entities : e.id # c.entity.id}
                     /\ rag_chunk_entities' = ChunkEntitiesAfterDelete(c.entity.id)
                     /\ calls' = [calls EXCEPT ![p] =
                           NextItem([c EXCEPT !.deleted = Append(@, name)],
                                    "de_find")]
       /\ UNCHANGED <<docVars, rag_relationships, rag_entity_embeddings,
                      nextEntityId, nextRelId, envVars>>

\* ----------------------------------------------------------- deleteRelations
deleteRelations(p, batches) ==
    /\ CanStart(p)
    /\ \E relations \in batches :
          Begin(p, "deleteRelations", relations, "dr_source")
    /\ UNCHANGED <<storeVars, envVars>>

\* select('id').eq('name', rel.from).single()
deleteRelations_source(p) ==
    LET c == calls[p]
    IN /\ c.pc = "dr_source"
       /\ calls' = [calls EXCEPT ![p] =
             [c EXCEPT !.sourceEntity = SelectEntityByName(c.args[c.i].from).id,
                       !.pc = "dr_target"]]
       /\ UNCHANGED <<storeVars, envVars>>

\* select('id').eq('name', rel.to).single(); notFound.push(rel) if either is null
deleteRelations_target(p) ==
    LET c == calls[p]
        rel == c.args[c.i]
        targetEntity == SelectEntityByName(rel.to).id
    IN /\ c.pc = "dr_target"
       /\ calls' = [calls EXCEPT ![p] =
             IF c.sourceEntity = 0 \/ targetEntity = 0
             THEN NextItem([c EXCEPT !.notFound = Append(@, rel)], "dr_source")
             ELSE [c EXCEPT !.targetEntity = targetEntity, !.pc = "dr_delete"]]
       /\ UNCHANGED <<storeVars, envVars>>

\* .delete().eq('source_entity', ..).eq('target_entity', ..).eq('relation_type', ..),
\* then errors.push({ relation: rel, error }) or deleted.push(rel)
deleteRelations_delete(p, outcomes) ==
    LET c == calls[p]
        rel == c.args[c.i]
    IN /\ c.pc = "dr_delete"
       /\ \E outcome \in outcomes :
             IF outcome = "error"
             THEN /\ calls' = [calls EXCEPT ![p] =
                        NextItem([c EXCEPT !.errors = Append(@,
                            [relation |-> rel, error |-> StorageErrorMessage])],
                          "dr_source")]
                  /\ UNCHANGED rag_relationships
             ELSE /\ rag_relationships' =
                        RelsNotMatching(rag_relationships, c.sourceEntity,
                                        c.targetEntity, rel.relationType)
                  /\ calls' = [calls EXCEPT ![p] =
                        NextItem([c EXCEPT !.deleted = Append(@, rel)],
                                 "dr_source")]
       /\ UNCHANGED <<docVars, linkVars,
                      rag_entities, rag_entity_embeddings, nextEntityId, nextRelId,
                      envVars>>

\* -------------------------------------------------------- deleteObservations
deleteObservations(p, batches) ==
    /\ CanStart(p)
    /\ \E deletions \in batches :
          Begin(p, "deleteObservations", deletions, "do_find")
    /\ UNCHANGED <<storeVars, envVars>>

\* select('id, observations').eq('name', deletion.entityName).single()
deleteObservations_find(p) ==
    LET c == calls[p]
        deletion == c.args[c.i]
        entity == SelectEntityByName(deletion.entityName)
    IN /\ c.pc = "do_find"
       /\ calls' = [calls EXCEPT ![p] =
             IF entity.id = 0
             THEN NextItem([c EXCEPT !.notFound = Append(@, deletion.entityName)],
                           "do_find")
             ELSE [c EXCEPT !.entity = entity, !.pc = "do_update"]]
       /\ UNCHANGED <<storeVars, envVars>>

\* .update({ observations: updatedObs }).eq('id', entity.id), then
\* errors.push({ entity, error }) or deleted.push({ entity, removedCount })
deleteObservations_update(p, outcomes) ==
    LET c == calls[p]
        deletion == c.args[c.i]
        currentObs == c.entity.observations
        updatedObs == FilterObs(currentObs, deletion.observations)
    IN /\ c.pc = "do_update"
       /\ \E outcome \in outcomes :
             IF outcome = "error"
             THEN /\ calls' = [calls EXCEPT ![p] =
                        NextItem([c EXCEPT !.errors = Append(@,
                            [entity |-> deletion.entityName,
                             error |-> StorageErrorMessage])],
                          "do_find")]
                  /\ UNCHANGED rag_entities
             ELSE /\ rag_entities' =
                        {IF e.id = c.entity.id
                         THEN [e EXCEPT !.observations = updatedObs] ELSE e :
                            e \in rag_entities}
                  /\ calls' = [calls EXCEPT ![p] =
                        NextItem([c EXCEPT !.deleted = Append(@,
                            [entity |-> deletion.entityName,
                             removedCount |-> Len(currentObs) - Len(updatedObs)])],
                          "do_find")]
       /\ UNCHANGED <<docVars, linkVars,
                      rag_relationships, rag_entity_embeddings, nextEntityId,
                      nextRelId, envVars>>

\* ------------------------------------------------------------- storeDocument
\* created_at of rag_documents, which the store sets when a row is inserted
\* and an update leaves alone. The code reads it to order rows and for
\* nothing else, so a row keeps its place among the stored rows in order of
\* creation: 1 for the oldest.
CreatedAt(id) ==
    IF \E d \in rag_documents : d.id = id
    THEN (CHOOSE d \in rag_documents : d.id = id).created_at
    ELSE Cardinality(rag_documents) + 1

\* .from('rag_documents').upsert({ id, content, metadata }).select().single()
UpsertDocument_KeepExisting(id, content) ==
    IF \E d \in rag_documents : d.id = id THEN rag_documents
    ELSE rag_documents
            \cup {[id |-> id, content |-> content, created_at |-> CreatedAt(id)]}
UpsertDocument(id, content) ==
    {d \in rag_documents : d.id # id}
        \cup {[id |-> id, content |-> content, created_at |-> CreatedAt(id)]}

\* .from('rag_documents').delete().eq('id', docId): the rows that stay, each
\* at its place among them
DeleteDocument(docId) ==
    LET kept == {d \in rag_documents : d.id # docId}
    IN {[d EXCEPT !.created_at =
            Cardinality({x \in kept : x.created_at < d.created_at}) + 1] :
        d \in kept}

\* A parameter the caller left undefined: `${undefined}` in a filter, and no
\* column at all in the row of an upsert
UndefinedId == "undefined"

\* rag_documents.id is the primary key: the upsert of a row without an id is
\* refused, and error.message is the store's
UpsertDocumentError(id) ==
    IF id = UndefinedId
    THEN "null value in column \"id\" violates not-null constraint"
    ELSE ""

storeDocument(id, content) ==
    /\ rag_documents' = IF UpsertDocumentError(id) = ""
                        THEN UpsertDocument(id, content)
                        ELSE rag_documents
    /\ UNCHANGED <<graphVars, linkVars,
                   rag_chunks, nextChunkId, envVars, calls>>

\* ----------------------------------------------------------- deleteDocuments
deleteDocuments(p, batches) ==
    /\ CanStart(p)
    /\ \E documentIds \in batches :
          Begin(p, "deleteDocuments", documentIds, "dd_chunks")
    /\ UNCHANGED <<storeVars, envVars>>

\* .from('rag_chunks').delete().eq('document_id', docId)
deleteDocuments_chunks(p) ==
    LET c == calls[p]
        docId == c.args[c.i]
    IN /\ c.pc = "dd_chunks"
       /\ rag_chunks' = {ch \in rag_chunks : ch.document_id # docId}
       /\ calls' = [calls EXCEPT ![p] = [c EXCEPT !.pc = "dd_document"]]
       /\ UNCHANGED <<graphVars, linkVars, rag_documents, nextChunkId, envVars>>

\* `document_id TEXT REFERENCES rag_documents(id)` of rag_chunks names no ON
\* DELETE action: the delete of a document row that a chunk row references is
\* refused, and error.message is the store's
DeleteDocumentError_NoReference(docId) == ""
DeleteDocumentError(docId) ==
    IF \E ch \in rag_chunks : ch.document_id = docId
    THEN "update or delete on table \"rag_documents\" violates foreign key constraint"
    ELSE ""

\* the list a document id is pushed to once the delete is carried out: a
\* delete that matches no row is no error
DeleteDocumentOutcome_ByMatch(docId) ==
    IF \E d \in rag_documents : d.id = docId THEN "deleted" ELSE "notFound"
DeleteDocumentOutcome(docId) == "deleted"

\* .from('rag_documents').delete().eq('id', docId), then
\* errors.push({ document: docId, error: error.message }) when the statement
\* failed and deleted.push(docId) when it did not
deleteDocuments_document(p, outcomes) ==
    LET c == calls[p]
        docId == c.args[c.i]
        refused == DeleteDocumentError(docId)
    IN /\ c.pc = "dd_document"
       /\ \E outcome \in outcomes :
             LET error == IF refused # "" THEN refused
                          ELSE IF outcome = "error" THEN StorageErrorMessage
                          ELSE ""
             IN IF error # ""
                THEN /\ calls' = [calls EXCEPT ![p] =
                           NextItem([c EXCEPT !.errors = Append(@,
                               [document |-> docId, error |-> error])],
                             "dd_chunks")]
                     /\ UNCHANGED rag_documents
                ELSE /\ rag_documents' = DeleteDocument(docId)
                     /\ calls' = [calls EXCEPT ![p] =
                           NextItem(IF DeleteDocumentOutcome(docId) = "deleted"
                                    THEN [c EXCEPT !.deleted = Append(@, docId)]
                                    ELSE [c EXCEPT !.notFound = Append(@, docId)],
                                    "dd_chunks")]
       /\ UNCHANGED <<graphVars, linkVars, rag_chunks, nextChunkId, envVars>>

\* ------------------------------------------------------------- chunkDocument
DefaultMaxChunkSize == 500
DefaultOverlap == 50

Min(a, b) == IF a < b THEN a ELSE b
Max(a, b) == IF a > b THEN a ELSE b

\* text.substring(startPos, endPos) for startPos <= endPos: a negative index
\* counts as 0 and one beyond the end as text.length
Substring(text, startPos, endPos) ==
    SubSeq(text, Min(Max(startPos, 0), Len(text)) + 1, Min(Max(endPos, 0), Len(text)))

\* let chunkIndex = 0
InitialChunkIndex_Continue(documentId) ==
    Cardinality({ch \in rag_chunks : ch.document_id = documentId})
InitialChunkIndex(documentId) == 0

\* Math.min(startPos + maxChunkSize, text.length)
EndPos(startPos, maxChunkSize, text) == Min(startPos + maxChunkSize, Len(text))

\* startPos += maxChunkSize - overlap
NextStartPos_NoOverlap(startPos, maxChunkSize, overlap) == startPos + maxChunkSize
NextStartPos(startPos, maxChunkSize, overlap) == startPos + maxChunkSize - overlap

\* `return { documentId, chunks }`: the tool call is over, or processDocument,
\* which awaited chunkDocument, goes on with its chunk step
ChunkDocumentReturns(c) == IF c.op = "processDocument" THEN "pd_chunked" ELSE "done"

\* const { maxChunkSize = 500, overlap = 50 } = options, then the select of
\* the document's content; throws when the document is not stored
chunkDocument(p, documentId, options) ==
    LET docs == {d \in rag_documents : d.id = documentId}
        begun == [Idle EXCEPT
                    !.op = "chunkDocument", !.documentId = documentId,
                    !.maxChunkSize = IF options.given THEN options.maxChunkSize
                                     ELSE DefaultMaxChunkSize,
                    !.overlap = IF options.given THEN options.overlap
                                ELSE DefaultOverlap]
    IN /\ CanStart(p)
       /\ calls' = [calls EXCEPT ![p] =
             IF docs = {}
             THEN [begun EXCEPT !.pc = "done", !.thrown = "Document not found"]
             ELSE LET text == (CHOOSE d \in docs : TRUE).content
                  IN [begun EXCEPT
                        !.text = text, !.startPos = 0,
                        !.chunkIndex = InitialChunkIndex(documentId),
                        !.pc = IF 0 < Len(text) THEN "cd_insert"
                               ELSE ChunkDocumentReturns(begun)]]
       /\ UNCHANGED <<storeVars, envVars>>

\* `document_id TEXT REFERENCES rag_documents(id)` of rag_chunks: the insert of
\* a chunk row whose document is not stored is refused
InsertChunkError(documentId) ==
    IF \E d \in rag_documents : d.id = documentId THEN ""
    ELSE "insert or update on table \"rag_chunks\" violates foreign key constraint"

\* one pass of `while (startPos < text.length)`: the insert into rag_chunks,
\* `if (!insertError) chunks.push(...)`, and the advance of startPos and
\* chunkIndex, which follows the push or its absence alike
chunkDocument_insert(p) ==
    LET c == calls[p]
        endPos == EndPos(c.startPos, c.maxChunkSize, c.text)
        chunkText == Substring(c.text, c.startPos, endPos)
        startPos == NextStartPos(c.startPos, c.maxChunkSize, c.overlap)
        insertError == InsertChunkError(c.documentId)
        d == [c EXCEPT !.startPos = startPos,
                       !.chunkIndex = c.chunkIndex + 1,
                       !.pc = IF startPos < Len(c.text) THEN "cd_insert"
                              ELSE ChunkDocumentReturns(c)]
    IN /\ c.pc = "cd_insert"
       /\ IF insertError # ""
          THEN /\ calls' = [calls EXCEPT ![p] = d]
               /\ UNCHANGED <<rag_chunks, nextChunkId>>
          ELSE /\ nextChunkId <= MaxChunkIds
               /\ rag_chunks' = rag_chunks \cup
                     {[id |-> nextChunkId, document_id |-> c.documentId,
                       chunk_index |-> c.chunkIndex, content |-> chunkText,
                       start_pos |-> c.startPos, end_pos |-> endPos,
                       embedding |-> "null", dims |-> 0]}
               /\ nextChunkId' = nextChunkId + 1
               /\ calls' = [calls EXCEPT ![p] =
                     [d EXCEPT !.chunks = Append(@,
                          [index |-> c.chunkIndex, text |-> chunkText,
                           startPos |-> c.startPos, endPos |-> endPos])]]
       /\ UNCHANGED <<graphVars, linkVars, rag_documents, envVars>>

\* --------------------------------------------------------------- embedChunks
\* A `throw` inside a call: the tool call ends with the error, except under
\* processDocument, whose catch block sets success = false and error
Throw(c, message) ==
    IF c.op = "processDocument"
    THEN [c EXCEPT !.success = FALSE, !.error = message, !.pc = "done"]
    ELSE [c EXCEPT !.thrown = message, !.pc = "done"]

\* the head of embedChunks: the modelInitialized check, then the select of the
\* document's chunks; throws when the model is not initialized or no chunk is
\* selected
EmbedChunksBegin(c, documentId) ==
    LET chunks == {ch \in rag_chunks : ch.document_id = documentId}
    IN IF ~modelInitialized THEN Throw(c, "Embedding model not initialized")
       ELSE IF chunks = {} THEN Throw(c, "No chunks found")
       ELSE [c EXCEPT !.rows = {ch.id : ch \in chunks},
                      !.totalChunks = Cardinality(chunks),
                      !.embeddedCount = 0,
                      !.pc = "ec_embed"]

\* the error of the update below, "" when the store carries it out: the
\* column refuses a vector that is not of its length, when a row takes it
UpdateChunkEmbeddingError(id, embedding) ==
    IF \E ch \in rag_chunks : ch.id = id THEN VectorColumnError(embedding) ELSE ""

\* .from('rag_chunks').update({ embedding }).eq('id', id): the row's embedding
\* is overwritten by the value given, null included; an undefined value is
\* dropped from the request body and the row keeps what it has, as it does
\* when the store refuses the update
UpdateChunkEmbedding(id, embedding) ==
    {IF ch.id = id /\ embedding.kind # "undefined"
           /\ UpdateChunkEmbeddingError(id, embedding) = ""
     THEN [ch EXCEPT !.embedding = embedding.kind, !.dims = embedding.dims]
     ELSE ch : ch \in rag_chunks}

\* if (!updateError) embeddedCount++
EmbeddedCountAfter(embeddedCount, updateError) ==
    IF updateError = "" THEN embeddedCount + 1 ELSE embeddedCount

\* `return { documentId, embeddedChunks, totalChunks }`: the tool call is
\* over, or processDocument pushes the embed step and returns its results
EmbedChunksReturns(c) ==
    IF c.op = "processDocument"
    THEN [c EXCEPT !.steps = Append(@, [step |-> "embed", status |-> "success",
                                         count |-> c.embeddedCount]),
                   !.embeddedChunks = c.embeddedCount,
                   !.pc = "done"]
    ELSE [c EXCEPT !.embeddedChunks = c.embeddedCount, !.pc = "done"]

embedChunks(p, documentId) ==
    /\ CanStart(p)
    /\ calls' = [calls EXCEPT ![p] =
          EmbedChunksBegin([Idle EXCEPT !.op = "embedChunks",
                                        !.documentId = documentId], documentId)]
    /\ UNCHANGED <<storeVars, envVars>>

\* one pass of `for (const chunk of chunks)` begins: the provider answers
\* generateEmbedding(chunk.content); the chunks come in the order the select
\* returned them, which the statement does not fix
embedChunks_embed(p) ==
    LET c == calls[p]
    IN /\ c.pc = "ec_embed"
       /\ \E id \in c.rows, response \in ProviderResponses :
             calls' = [calls EXCEPT ![p] =
                [c EXCEPT !.rows = @ \ {id}, !.chunkId = id,
                          !.embedding = GenerateEmbedding(response),
                          !.pc = "ec_update"]]
       /\ UNCHANGED <<storeVars, envVars>>

\* the update of the chunk row with what generateEmbedding returned, and the
\* count, which a failed update leaves as it is
embedChunks_update(p, outcomes) ==
    LET c == calls[p]
        refused == UpdateChunkEmbeddingError(c.chunkId, c.embedding)
    IN /\ c.pc = "ec_update"
       /\ \E outcome \in outcomes :
             LET updateError == IF refused # "" THEN refused
                                ELSE IF outcome = "error" THEN StorageErrorMessage
                                ELSE ""
                 d == [c EXCEPT !.embeddedCount = EmbeddedCountAfter(@, updateError),
                                !.embedding = Null, !.chunkId = 0,
                                !.pc = "ec_embed"]
             IN /\ rag_chunks' = IF updateError = ""
                                 THEN UpdateChunkEmbedding(c.chunkId, c.embedding)
                                 ELSE rag_chunks
                /\ calls' = [calls EXCEPT ![p] =
                      IF d.rows = {} THEN EmbedChunksReturns(d) ELSE d]
       /\ UNCHANGED <<graphVars, linkVars, rag_documents, nextChunkId, envVars>>

\* ---------------------------------------------------------- embedAllEntities
\* throws when the model is not initialized; else the select of all
\* entities, whose rows the loop goes through as they were returned
embedAllEntities(p) ==
    LET begun == [Idle EXCEPT !.op = "embedAllEntities"]
    IN /\ CanStart(p)
       /\ calls' = [calls EXCEPT ![p] =
             IF ~modelInitialized
             THEN Throw(begun, "Embedding model not initialized")
             ELSE [begun EXCEPT !.selected = rag_entities,
                                !.totalChunks = Cardinality(rag_entities),
                                !.embeddedCount = 0,
                                !.embeddedChunks = IF rag_entities = {} THEN 0 ELSE @,
                                !.pc = IF rag_entities = {} THEN "done" ELSE "ea_embed"]]
       /\ UNCHANGED <<storeVars, envVars>>

\* one pass of `for (const entity of entities)` begins: the text is built
\* from the selected row and the provider answers generateEmbedding
embedAllEntities_embed(p) ==
    LET c == calls[p]
    IN /\ c.pc = "ea_embed"
       /\ \E entity \in c.selected, response \in ProviderResponses :
             calls' = [calls EXCEPT ![p] =
                [c EXCEPT !.selected = @ \ {entity},
                          !.entity = [id |-> entity.id,
                                      observations |-> entity.observations],
                          !.embeddingText = generateEntityEmbeddingText(
                              [name |-> entity.name,
                               entityType |-> entity.entity_type,
                               observations |-> entity.observations]),
                          !.embedding = GenerateEmbedding(response),
                          !.pc = "ea_upsert"]]
       /\ UNCHANGED <<storeVars, envVars>>

\* the upsert of { entity_id, embedding, embedding_text } and
\* `if (!insertError) embeddedCount++`
embedAllEntities_upsert(p, outcomes) ==
    LET c == calls[p]
        refused == UpsertEntityEmbeddingError(c.entity.id, c.embedding)
    IN /\ c.pc = "ea_upsert"
       /\ \E outcome \in outcomes :
             LET insertError == IF refused # "" THEN refused
                                ELSE IF outcome = "error" THEN StorageErrorMessage
                                ELSE ""
                 embeddedCount == EmbeddedCountAfter(c.embeddedCount, insertError)
             IN /\ insertError = ""
                      => Cardinality(rag_entity_embeddings) < MaxEmbeddingRows
                /\ rag_entity_embeddings' =
                      IF insertError = ""
                      THEN UpsertEntityEmbedding(c.entity.id, c.embedding,
                                                 c.embeddingText)
                      ELSE rag_entity_embeddings
                /\ calls' = [calls EXCEPT ![p] =
                      [c EXCEPT !.embedding = Null,
                                !.embeddedCount = embeddedCount,
                                !.embeddedChunks = IF c.selected = {}
                                                   THEN embeddedCount ELSE @,
                                !.pc = IF c.selected = {} THEN "done"
                                       ELSE "ea_embed"]]
       /\ UNCHANGED <<docVars, linkVars,
                      rag_entities, rag_relationships, nextEntityId, nextRelId,
                      envVars>>

\* ----------------------------------------------------------- processDocument
\* const { maxChunkSize = 500, overlap = 50, metadata = {} } = options;
\* const results = { documentId: id, steps: [], success: true }
processDocument(p, id, content, options) ==
    /\ CanStart(p)
    /\ calls' = [calls EXCEPT ![p] =
          [Idle EXCEPT !.op = "processDocument", !.documentId = id,
                       !.content = content,
                       !.maxChunkSize = IF options.given THEN options.maxChunkSize
                                        ELSE DefaultMaxChunkSize,
                       !.overlap = IF options.given THEN options.overlap
                                   ELSE DefaultOverlap,
                       !.steps = <<>>, !.success = TRUE,
                       !.pc = "pd_store"]]
    /\ UNCHANGED <<storeVars, envVars>>

\* await this.storeDocument(id, content, metadata), which throws the error of
\* its upsert, then the store step is pushed
processDocument_store(p, outcomes) ==
    LET c == calls[p]
        refused == UpsertDocumentError(c.documentId)
    IN /\ c.pc = "pd_store"
       /\ \E outcome \in outcomes :
             IF refused # ""
             THEN /\ calls' = [calls EXCEPT ![p] = Throw(c, refused)]
                  /\ UNCHANGED rag_documents
             ELSE IF outcome = "error"
             THEN /\ calls' = [calls EXCEPT ![p] = Throw(c, StorageErrorMessage)]
                  /\ UNCHANGED rag_documents
             ELSE /\ rag_documents' = UpsertDocument(c.documentId, c.content)
                  /\ calls' = [calls EXCEPT ![p] =
                        [c EXCEPT !.steps = Append(@, [step |-> "store",
                                                       status |-> "success",
                                                       count |-> 0]),
                                  !.pc = "pd_chunk"]]
       /\ UNCHANGED <<graphVars, linkVars, rag_chunks, nextChunkId, envVars>>

\* await this.chunkDocument(id, { maxChunkSize, overlap }): the select of the
\* document's content, which throws on an error or when no row is returned;
\* the loop of chunkDocument follows
processDocument_chunk(p, outcomes) ==
    LET c == calls[p]
        docs == {d \in rag_documents : d.id = c.documentId}
    IN /\ c.pc = "pd_chunk"
       /\ \E outcome \in outcomes :
             calls' = [calls EXCEPT ![p] =
                IF outcome = "error" \/ docs = {}
                THEN Throw(c, "Document not found")
                ELSE LET text == (CHOOSE d \in docs : TRUE).content
                     IN [c EXCEPT
                           !.text = text, !.startPos = 0,
                           !.chunkIndex = InitialChunkIndex(c.documentId),
                           !.pc = IF 0 < Len(text) THEN "cd_insert"
                                  ELSE ChunkDocumentReturns(c)]]
       /\ UNCHANGED <<storeVars, envVars>>

\* chunkDocument has returned: the chunk step is pushed, then the embed step:
\* embedChunks(id) when the model is initialized, a skipped step otherwise
processDocument_embed(p) ==
    LET c == calls[p]
        chunked == [c EXCEPT !.steps = Append(@, [step |-> "chunk",
                                                  status |-> "success",
                                                  count |-> Len(c.chunks)]),
                             !.chunksCreated = Len(c.chunks)]
    IN /\ c.pc = "pd_chunked"
       /\ calls' = [calls EXCEPT ![p] =
             IF modelInitialized
             THEN EmbedChunksBegin(chunked, c.documentId)
             ELSE [chunked EXCEPT
                      !.steps = Append(@, [step |-> "embed", status |-> "skipped",
                                           count |-> 0]),
                      !.embeddedChunks = 0,
                      !.pc = "done"]]
       /\ UNCHANGED <<storeVars, envVars>>

\* -------------------------------------------------------------- hybridSearch
MinKeywordLength == 3
MaxKeywords == 5
DefaultLimit == 5

\* String.prototype.toLowerCase, on the letters the inputs are written in
LowerCaseOf ==
    [A |-> "a", B |-> "b", C |-> "c", D |-> "d", E |-> "e", F |-> "f",
     G |-> "g", H |-> "h", I |-> "i", J |-> "j", K |-> "k", L |-> "l",
     M |-> "m", N |-> "n", O |-> "o", P |-> "p", Q |-> "q", R |-> "r",
     S |-> "s", T |-> "t", U |-> "u", V |-> "v", W |-> "w", X |-> "x",
     Y |-> "y", Z |-> "z"]
UpperCaseLetters == DOMAIN LowerCaseOf
LowerCaseLetters == {LowerCaseOf[ch] : ch \in UpperCaseLetters}
Lower(ch) == IF ch \in UpperCaseLetters THEN LowerCaseOf[ch] ELSE ch
ToLowerCaseText(text) == [k \in 1..Len(text) |-> Lower(text[k])]

\* \s of a regular expression
IsSpace(ch) == ch \in {" ", "\t", "\n"}

\* text.split(/\s+/): every run of whitespace ends a token, so whitespace at
\* the start or the end leaves an empty token there, and "" is one empty token
RECURSIVE SplitFrom(_, _, _, _)
SplitFrom(text, k, word, words) ==
    IF k > Len(text) THEN Append(words, word)
    ELSE IF IsSpace(text[k])
         THEN IF k > 1 /\ IsSpace(text[k - 1])
              THEN SplitFrom(text, k + 1, word, words)
              ELSE SplitFrom(text, k + 1, <<>>, Append(words, word))
         ELSE SplitFrom(text, k + 1, Append(word, text[k]), words)
Split(text) == SplitFrom(text, 1, <<>>, <<>>)

\* .filter(w => w.length >= 3)
IsKeyword_AnyToken(w) == Len(w) >= 1
IsKeyword(w) == Len(w) >= MinKeywordLength

\* array.slice(0, n)
Slice(array, n) == SubSeq(array, 1, Min(n, Len(array)))

\* const keywords = query.toLowerCase().split(/\s+/).filter(...).slice(0, 5)
Keywords(query) ==
    Slice(SelectSeq(Split(ToLowerCaseText(query)), IsKeyword), MaxKeywords)

\* contentLower.includes(kw)
Includes(text, kw) ==
    \E k \in 0..(Len(text) - Len(kw)) : SubSeq(text, k + 1, k + Len(kw)) = kw

\* content.ilike.%kw%: the keyword occurs in the content, whatever the case
\* of either
ILike(content, kw) == Includes(ToLowerCaseText(content), ToLowerCaseText(kw))

\* .or(orConditions): the documents that contain any of the keywords.
\* hybridSearch selects 'id, content, metadata, created_at', which is every
\* column kept here.
OrConditions(keywords) ==
    {doc \in rag_documents :
        \E k \in 1..Len(keywords) : ILike(doc.content, keywords[k])}

\* .limit(n) of a select without an order: any n of the matching rows, in
\* any order
SelectLimit(rows, n) ==
    {data \in [1..Min(n, Cardinality(rows)) -> rows] :
        \A i, j \in DOMAIN data : i # j => data[i] # data[j]}

\* keywords.filter(kw => contentLower.includes(kw)).length: one for every
\* item of the keyword list that the content includes
MatchCount(doc, keywords) ==
    Cardinality({k \in 1..Len(keywords) :
                    Includes(ToLowerCaseText(doc.content), keywords[k])})

\* data.map(doc => ({ ...doc, _matchCount: matchCount }))
Ranked(data, keywords) ==
    [k \in 1..Len(data) |->
        [id |-> data[k].id, content |-> data[k].content,
         created_at |-> data[k].created_at,
         matchCount |-> MatchCount(data[k], keywords)]]

\* ranked.sort((a, b) => b._matchCount - a._matchCount): the stable sort of
\* Array.prototype.sort, larger counts first
SortInsert(sorted, doc) ==
    LET n == Len(SelectSeq(sorted, LAMBDA a : a.matchCount >= doc.matchCount))
    IN SubSeq(sorted, 1, n) \o <<doc>> \o SubSeq(sorted, n + 1, Len(sorted))
RECURSIVE SortFrom(_, _, _)
SortFrom(ranked, k, sorted) ==
    IF k > Len(ranked) THEN sorted
    ELSE SortFrom(ranked, k + 1, SortInsert(sorted, ranked[k]))
Sort(ranked) == SortFrom(ranked, 1, <<>>)

\* ranked.slice(0, limit).map(({ _matchCount, ...doc }) => doc)
SearchResults(data, keywords, limit) ==
    LET top == Slice(Sort(Ranked(data, keywords)), limit)
    IN [k \in 1..Len(top) |->
           [id |-> top[k].id, content |-> top[k].content,
            created_at |-> top[k].created_at]]

\* manager.hybridSearch(args.query, args.limit || 5): a limit of 0 is a
\* limit the caller left out
LimitOrDefault(limit) == IF limit = 0 THEN DefaultLimit ELSE limit

\* The whole call: the keywords, then one select on rag_documents by ilike
\* conditions, ranked in memory.  Nothing in it reads whether the store has
\* the full-text column.
hybridSearch(p, query, limit) ==
    LET keywords == Keywords(query)
        call == [Idle EXCEPT !.op = "hybridSearch", !.pc = "done",
                             !.query = query, !.keywords = keywords,
                             !.limit = LimitOrDefault(limit)]
    IN /\ CanStart(p)
       /\ IF Len(keywords) = 0
          THEN calls' = [calls EXCEPT ![p] = call]
          ELSE \E data \in SelectLimit(OrConditions(keywords), call.limit * 2) :
                  calls' = [calls EXCEPT ![p] =
                      [call EXCEPT
                          !.queried = TRUE,
                          !.strategy = "ilike",
                          !.data = data,
                          !.results = SearchResults(data, keywords, call.limit)]]
       /\ UNCHANGED <<storeVars, envVars>>

\* -------------------------------------------------------- getDetailedContext
\* const { limit = 5, includeEntities = true } = options, on the
\* { limit: args.limit, ... } of the handler: a limit of 0 is a limit the
\* caller left out
ContextLimit(limit) == IF limit = 0 THEN DefaultLimit ELSE limit

\* The characters of an entity name
NameText(name) ==
    CASE name = "React" -> <<"R", "e", "a", "c", "t">>
      [] name = "JavaScript" ->
            <<"J", "a", "v", "a", "S", "c", "r", "i", "p", "t">>

\* .select('name, entity_type, observations'): the rows come back with these
\* three columns and no other
SelectedEntityColumns(e) ==
    [name |-> e.name, entity_type |-> e.entity_type,
     observations |-> e.observations]

\* .ilike('name', `%${query}%`): the whole query occurs in the name
EntitiesLike(query) ==
    {SelectedEntityColumns(e) : e \in {x \in rag_entities : ILike(NameText(x.name), query)}}

\* entities.map(e => e.id).filter(Boolean): the ids of the rows that have one
EntityIds(entities) ==
    {entities[k].id : k \in {j \in DOMAIN entities : "id" \in DOMAIN entities[j]}}

\* .from('rag_relationships').select('*').in('source_entity', entityIds)
RelationshipsFrom(entityIds) ==
    {r \in rag_relationships : r.source_entity \in entityIds}

\* The call begins: the limit and includeEntities of the options, and the
\* keywords of the query; no document is selected for a query without keywords
getDetailedContext(p, query, limitArg, includeEntities) ==
    LET keywords == Keywords(query)
    IN /\ CanStart(p)
       /\ calls' = [calls EXCEPT ![p] =
             [Idle EXCEPT !.op = "getDetailedContext",
                          !.query = query, !.keywords = keywords,
                          !.limit = ContextLimit(limitArg),
                          !.includeEntities = includeEntities,
                          !.pc = IF Len(keywords) > 0 THEN "gc_documents"
                                 ELSE IF includeEntities THEN "gc_entities"
                                 ELSE "done"]]
       /\ UNCHANGED <<storeVars, envVars>>

\* .select('id, content, metadata'): the rows come back with these columns
\* (metadata is not kept)
SelectedDocumentColumns(doc) == [id |-> doc.id, content |-> doc.content]

\* the select of the documents by ilike conditions: limit rows, as they come
getDetailedContext_documents(p) ==
    LET c == calls[p]
        rows == {SelectedDocumentColumns(doc) : doc \in OrConditions(c.keywords)}
    IN /\ c.pc = "gc_documents"
       /\ \E docs \in SelectLimit(rows, c.limit) :
             calls' = [calls EXCEPT ![p] =
                [c EXCEPT !.documents = docs,
                          !.pc = IF c.includeEntities THEN "gc_entities"
                                 ELSE "done"]]
       /\ UNCHANGED <<storeVars, envVars>>

\* the select of the entities by name. The relationships are selected for
\* the ids found in the entity rows: the rows carry no id, so there is none
\* and that select is never sent.
getDetailedContext_entities(p) ==
    LET c == calls[p]
    IN /\ c.pc = "gc_entities"
       /\ \E entities \in SelectLimit(EntitiesLike(c.query), c.limit) :
          \E rels \in IF EntityIds(entities) # {}
                      THEN SelectLimit(RelationshipsFrom(EntityIds(entities)),
                                       c.limit)
                      ELSE {<<>>} :
             calls' = [calls EXCEPT ![p] =
                [c EXCEPT !.entities = entities, !.relationships = rels,
                          !.pc = "done"]]
       /\ UNCHANGED <<storeVars, envVars>>

\* supabase-fts-setup.sql is run on the store: rag_documents gets the
\* content_tsv column, its index and its trigger
supabase_fts_setup ==
    /\ ~content_tsv
    /\ content_tsv' = TRUE
    /\ UNCHANGED <<storeVars, modelInitialized, mode, openaiClient, provider, calls>>

\* ---------------------------------------------------- linkEntitiesToDocument
\* .from('rag_chunks').select('id').eq('document_id', documentId): the ids of
\* the document's chunks, in the order the store returns them, which the
\* statement does not fix
SelectChunkIds(documentId) ==
    LET ids == {ch.id : ch \in {x \in rag_chunks : x.document_id = documentId}}
    IN {chunkIds \in [1..Cardinality(ids) -> ids] :
           \A i, j \in DOMAIN chunkIds : i # j => chunkIds[i] # chunkIds[j]}

\* .upsert({chunk_id, entity_id}, {onConflict: 'chunk_id,entity_id'})
UpsertChunkEntity(chunk_id, entity_id) ==
    rag_chunk_entities \cup {[chunk_id |-> chunk_id, entity_id |-> entity_id]}

\* the select of the document: the call throws when there is no such document
linkEntitiesToDocument(p, documentId, batches) ==
    /\ CanStart(p)
    /\ \E entityNames \in batches :
          LET call == [Idle EXCEPT !.op = "linkEntitiesToDocument",
                                   !.documentId = documentId,
                                   !.args = entityNames, !.i = 1]
          IN calls' = [calls EXCEPT ![p] =
                IF \E d \in rag_documents : d.id = documentId
                THEN [call EXCEPT !.pc = "le_chunks"]
                ELSE Throw(call, "Document not found")]
    /\ UNCHANGED <<storeVars, envVars>>

\* the select of the chunk ids, then the loop over entityNames begins
linkEntitiesToDocument_chunks(p) ==
    LET c == calls[p]
    IN /\ c.pc = "le_chunks"
       /\ \E chunkIds \in SelectChunkIds(c.documentId) :
             calls' = [calls EXCEPT ![p] =
                [c EXCEPT !.chunkIds = chunkIds,
                          !.pc = IF c.args = <<>> THEN "done" ELSE "le_entity"]]
       /\ UNCHANGED <<storeVars, envVars>>

\* select('id').eq('name', entityName).single(): a name without a row is
\* skipped, and with no chunks there is nothing to link and nothing counted
linkEntitiesToDocument_entity(p) ==
    LET c == calls[p]
        entity == SelectEntityByName(c.args[c.i])
    IN /\ c.pc = "le_entity"
       /\ calls' = [calls EXCEPT ![p] =
             IF entity.id = 0 \/ c.chunkIds = <<>>
             THEN NextItem(c, "le_entity")
             ELSE [c EXCEPT !.entity = entity, !.k = 1, !.pc = "le_upsert"]]
       /\ UNCHANGED <<storeVars, envVars>>

\* one pass of `for (const chunk of chunks)`: the upsert of the link; after
\* the last chunk linkedCount++
linkEntitiesToDocument_upsert(p) ==
    LET c == calls[p]
    IN /\ c.pc = "le_upsert"
       /\ rag_chunk_entities' = UpsertChunkEntity(c.chunkIds[c.k], c.entity.id)
       /\ calls' = [calls EXCEPT ![p] =
             IF c.k < Len(c.chunkIds)
             THEN [c EXCEPT !.k = c.k + 1]
             ELSE NextItem([c EXCEPT !.k = 0, !.linkedCount = @ + 1],
                           "le_entity")]
       /\ UNCHANGED <<graphVars, docVars, envVars>>

\* ------------------------------------------------------------- environment
\* initialize() of a process on the same store: initializeEmbeddingModel sets
\* modelInitialized without loading anything in openai mode, and by whether
\* the local pipeline loads otherwise
initializeEmbeddingModel ==
    /\ \A p \in Procs : CanStart(p)
    /\ IF mode = "openai"
       THEN modelInitialized' = TRUE
       ELSE \E loaded \in BOOLEAN : modelInitialized' = loaded
    /\ UNCHANGED <<storeVars, mode, openaiClient, provider, content_tsv, calls>>

\* the embedding provider starts or stops answering
providerChanges(states) ==
    /\ \E state \in states \ {provider} : provider' = state
    /\ UNCHANGED <<storeVars, modelInitialized, mode, openaiClient, content_tsv, calls>>

Init ==
    /\ rag_entities = {}
    /\ rag_relationships = {}
    /\ rag_entity_embeddings = {}
    /\ nextEntityId = 1
    /\ nextRelId = 1
    /\ rag_documents = {}
    /\ rag_chunks = {}
    /\ nextChunkId = 1
    /\ rag_chunk_entities = {}
    /\ content_tsv = FALSE
    /\ mode = "local"
    /\ openaiClient = FALSE
    /\ modelInitialized \in BOOLEAN
    /\ provider \in IF modelInitialized THEN {"up", "down"} ELSE {"down"}
    /\ calls = [p \in Procs |-> Idle]

\* Tool calls on the entity graph, served one after another: each call runs
\* to completion before the next is taken.
Next ==
    \/ createEntities(1, Batches(EntityInputs, MaxBatch))
    \/ createEntities_insert(1)
    \/ createEntities_embed(1)
    \/ createEntities_upsert(1)
    \/ createRelations(1, Batches(RelationInputs, MaxBatch))
    \/ createRelations_source(1)
    \/ createRelations_target(1)
    \/ createRelations_insert(1, Answered)
    \/ deleteEntities(1, Batches(Names, MaxBatch))
    \/ deleteEntities_find(1)
    \/ deleteEntities_relationships(1)
    \/ deleteEntities_entity(1, Answered)
    \/ deleteRelations(1, Batches(RelationInputs, MaxBatch))
    \/ deleteRelations_source(1)
    \/ deleteRelations_target(1)
    \/ deleteRelations_delete(1, Answered)

Spec == Init /\ [][Next]_vars

\* Tool calls on the observation lists, served one after another.
NextObs ==
    \/ createEntities(1, Batches(EntityInputs, MaxBatch))
    \/ createEntities_insert(1)
    \/ createEntities_embed(1)
    \/ createEntities_upsert(1)
    \/ addObservations(1, Batches(ObservationInputs, MaxBatch))
    \/ addObservations_find(1)
    \/ addObservations_update(1)
    \/ deleteObservations(1, Batches(DeletionInputs, MaxBatch))
    \/ deleteObservations_find(1)
    \/ deleteObservations_update(1, Answered)

SpecObs == Init /\ [][NextObs]_vars

\* Tool calls in flight together: createEntities, createRelations and
\* deleteEntities calls interleave between their storage statements.
NextRace ==
    \E p \in Procs :
        \/ createEntities(p, Batches(RaceEntityInputs, MaxRaceBatch))
        \/ createEntities_insert(p)
        \/ createEntities_embed(p)
        \/ createEntities_upsert(p)
        \/ createRelations(p, Batches(RaceRelationInputs, MaxRaceBatch))
        \/ createRelations_source(p)
        \/ createRelations_target(p)
        \/ createRelations_insert(p, Answered)
        \/ deleteEntities(p, Batches(RaceNames, MaxRaceBatch))
        \/ deleteEntities_find(p)
        \/ deleteEntities_relationships(p)
        \/ deleteEntities_entity(p, Answered)

SpecRace == Init /\ [][NextRace]_vars

\* Documents are stored, then chunkDocument calls are served one after
\* another, one per call slot.
NoCallYet == \A p \in Procs : calls[p].pc = "idle"
SlotIsNext(p) == calls[p].pc = "idle" /\ \A q \in 1..(p - 1) : calls[q].pc = "done"

NextChunk ==
    \/ \E content \in Texts : NoCallYet /\ storeDocument("doc1", content)
    \/ \E p \in Procs, documentId \in DocIds, options \in ChunkOptionInputs :
          SlotIsNext(p) /\ chunkDocument(p, documentId, options)
    \/ \E p \in Procs : chunkDocument_insert(p)

SpecChunk == Init /\ [][NextChunk]_vars

\* ------------------------------------------------------------- constructor
\* The values of process.env.MODE ("" when unset)
EnvModes == {"", "local", "openai", "OPENAI", "remote"}

\* String.prototype.toLowerCase on the values above
ToLowerCase(str) ==
    CASE str = "OPENAI" -> "openai"
      [] str = "CLIENT" -> "client"
      [] OTHER -> str

\* this.mode and this.openaiClient after the constructor: MODE=openai without
\* OPENAI_API_KEY falls back to local
Constructor(envMode, hasApiKey) ==
    LET m == ToLowerCase(IF envMode = "" THEN "local" ELSE envMode)
    IN [mode |-> IF m = "openai" /\ ~hasApiKey THEN "local" ELSE m,
        openaiClient |-> m = "openai" /\ hasApiKey]

\* A manager right after its constructor, on an empty store
InitEmbed ==
    /\ rag_entities = {}
    /\ rag_relationships = {}
    /\ rag_entity_embeddings = {}
    /\ nextEntityId = 1
    /\ nextRelId = 1
    /\ rag_documents = {}
    /\ rag_chunks = {}
    /\ nextChunkId = 1
    /\ rag_chunk_entities = {}
    /\ content_tsv = FALSE
    /\ \E envMode \in EnvModes, hasApiKey \in BOOLEAN :
          /\ mode = Constructor(envMode, hasApiKey).mode
          /\ openaiClient = Constructor(envMode, hasApiKey).openaiClient
    /\ modelInitialized = FALSE
    /\ provider \in {"up", "down", "malformed"}
    /\ calls = [p \in Procs |-> Idle]

\* The embedding adapter: the manager is initialized and generateEmbedding is
\* called directly, while the provider comes and goes.
NextEmbed ==
    \/ initializeEmbeddingModel
    \/ \E p \in Procs, text \in DocTexts : generateEmbedding(p, text)
    \/ providerChanges({"up", "down", "malformed"})

SpecEmbed == InitEmbed /\ [][NextEmbed]_vars

\* The document pipeline: processDocument and embedChunks calls served one
\* after another, one per call slot, while the process may be initialized
\* again and the embedding provider comes and goes.
NextDoc ==
    \/ \E p \in Procs, content \in DocTexts, options \in ProcessOptionInputs :
          SlotIsNext(p) /\ processDocument(p, "doc1", content, options)
    \/ \E p \in Procs : processDocument_store(p, StorageOutcomes)
    \/ \E p \in Procs : processDocument_chunk(p, StorageOutcomes)
    \/ \E p \in Procs : chunkDocument_insert(p)
    \/ \E p \in Procs : processDocument_embed(p)
    \/ \E p \in Procs, documentId \in DocIds :
          SlotIsNext(p) /\ embedChunks(p, documentId)
    \/ \E p \in Procs : embedChunks_embed(p)
    \/ \E p \in Procs : embedChunks_update(p, Answered)
    \/ initializeEmbeddingModel
    \/ providerChanges({"up", "down"})

SpecDoc == Init /\ [][NextDoc]_vars

\* The callers of generateEmbedding: createEntities, embedAllEntities and
\* embedChunks (alone and under processDocument) served one after another,
\* on one document that is processed once.
NextEmbedCallers ==
    \/ createEntities(1, Batches(RaceEntityInputs, MaxRaceBatch))
    \/ createEntities_insert(1)
    \/ createEntities_embed(1)
    \/ createEntities_upsert(1)
    \/ embedAllEntities(1)
    \/ embedAllEntities_embed(1)
    \/ embedAllEntities_upsert(1, Answered)
    \/ \E content \in DocTexts \ {<<>>} :
          /\ rag_documents = {}
          /\ CanStart(1)
          /\ processDocument(1, "doc1", content, [given |-> TRUE,
                 maxChunkSize |-> MaxChunkSize, overlap |-> 0])
    \/ processDocument_store(1, Answered)
    \/ processDocument_chunk(1, Answered)
    \/ chunkDocument_insert(1)
    \/ processDocument_embed(1)
    \/ embedChunks(1, "doc1")
    \/ embedChunks_embed(1)
    \/ embedChunks_update(1, Answered)
    \/ initializeEmbeddingModel
    \/ providerChanges({"up", "down"})

SpecEmbedCallers == Init /\ [][NextEmbedCallers]_vars

\* Documents are stored, in the order of their ids, then hybridSearch calls
\* are served one after another, on a store where supabase-fts-setup.sql is
\* run at some point or never.
SearchDocOrder == <<"doc1", "doc2", "doc3">>
NextSearch ==
    \/ \E k \in DOMAIN SearchDocOrder, content \in SearchTexts :
          /\ NoCallYet
          /\ \A d \in rag_documents : \E j \in 1..k : SearchDocOrder[j] = d.id
          /\ storeDocument(SearchDocOrder[k], content)
    \/ \E query \in QueryInputs, limit \in LimitInputs :
          hybridSearch(1, query, limit)
    \/ supabase_fts_setup

SpecSearch == Init /\ [][NextSearch]_vars

\* Observation calls in flight together: once the entity is created,
\* addObservations and deleteObservations calls interleave between their
\* select and their update.
NextObsRace ==
    \/ /\ rag_entities = {}
       /\ NoCallYet
       /\ createEntities(1, Batches(RaceEntityInputs, MaxRaceBatch))
    \/ createEntities_insert(1)
    \/ createEntities_embed(1)
    \/ createEntities_upsert(1)
    \/ \E p \in Procs :
          /\ rag_entities # {}
          /\ \/ addObservations(p, Batches(RaceObservationInputs, MaxRaceBatch))
             \/ deleteObservations(p, Batches(RaceDeletionInputs, MaxRaceBatch))
    \/ \E p \in Procs :
          \/ addObservations_find(p)
          \/ addObservations_update(p)
          \/ deleteObservations_find(p)
          \/ deleteObservations_update(p, Answered)

SpecObsRace == Init /\ [][NextObsRace]_vars

NoDocuments == rag_documents = {}
NoEntities == nextEntityId = 1

\* The batch and bulk calls, served one after another: the calls on the
\* graph on a store without documents, and chunkDocument and embedChunks on
\* one document of a store without entities. The statement whose error a
\* loop reads may fail for a reason outside the schema. embedAllEntities is
\* started while fewer than MaxBatch embedding rows are stored, so that the
\* rows it adds stay within MaxEmbeddingRows.
NextBatch ==
    \/ NoDocuments /\ createEntities(1, Batches(RaceEntityInputs, MaxBatch))
    \/ createEntities_insert(1)
    \/ createEntities_embed(1)
    \/ createEntities_upsert(1)
    \/ NoDocuments /\ createRelations(1, Batches(ContextRelationInputs, MaxBatch))
    \/ createRelations_source(1)
    \/ createRelations_target(1)
    \/ createRelations_insert(1, StorageOutcomes)
    \/ NoDocuments /\ deleteEntities(1, Batches(Names, MaxBatch))
    \/ deleteEntities_find(1)
    \/ deleteEntities_relationships(1)
    \/ deleteEntities_entity(1, StorageOutcomes)
    \/ NoDocuments /\ deleteRelations(1, Batches(ContextRelationInputs, MaxBatch))
    \/ deleteRelations_source(1)
    \/ deleteRelations_target(1)
    \/ deleteRelations_delete(1, StorageOutcomes)
    \/ NoDocuments /\ deleteObservations(1, Batches(RaceDeletionInputs, MaxBatch))
    \/ deleteObservations_find(1)
    \/ deleteObservations_update(1, StorageOutcomes)
    \/ NoDocuments /\ Cardinality(rag_entity_embeddings) < MaxBatch
          /\ embedAllEntities(1)
    \/ embedAllEntities_embed(1)
    \/ embedAllEntities_upsert(1, StorageOutcomes)
    \/ \E content \in DocTexts \ {<<>>} :
          NoDocuments /\ NoEntities /\ CanStart(1) /\ storeDocument("doc1", content)
    \/ /\ rag_chunks = {}
       /\ chunkDocument(1, "doc1", [given |-> TRUE, maxChunkSize |-> MaxChunkSize - 1,
                                    overlap |-> 0])
    \/ chunkDocument_insert(1)
    \/ ~NoDocuments /\ embedChunks(1, "doc1")
    \/ embedChunks_embed(1)
    \/ embedChunks_update(1, StorageOutcomes)

SpecBatch == Init /\ [][NextBatch]_vars

\* Document calls in flight together: chunkDocument and deleteDocuments
\* calls on one document interleave between their storage statements; the
\* document is stored, and stored again once it is deleted.
RaceChunkOptions == [given |-> TRUE, maxChunkSize |-> MaxChunkSize - 1, overlap |-> 0]
NextDocRace ==
    \/ /\ \A p \in Procs : CanStart(p)
       /\ NoDocuments
       /\ storeDocument("doc1", TextOfLen(MaxDocLen))
    \/ \E p \in Procs :
          \/ rag_chunks = {} /\ chunkDocument(p, "doc1", RaceChunkOptions)
          \/ chunkDocument_insert(p)
          \/ deleteDocuments(p, Batches(DocIds, MaxRaceBatch))
          \/ deleteDocuments_chunks(p)
          \/ deleteDocuments_document(p, Answered)

SpecDocRace == Init /\ [][NextDocRace]_vars

\* Document calls served one after another, one per call slot, on one
\* document that is stored, and stored again with other content, between them.
NextDocSeq ==
    \/ \E content \in {TextOfLen(MaxDocLen - 1), TextOfLen(MaxDocLen)} :
          (\A p \in Procs : CanStart(p)) /\ storeDocument("doc1", content)
    \/ \E p \in Procs :
          SlotIsNext(p) /\ chunkDocument(p, "doc1", RaceChunkOptions)
    \/ \E p \in Procs :
          SlotIsNext(p)
             /\ processDocument(p, "doc1", TextOfLen(MaxDocLen), RaceChunkOptions)
    \/ \E p \in Procs : processDocument_store(p, Answered)
    \/ \E p \in Procs : processDocument_chunk(p, Answered)
    \/ \E p \in Procs : chunkDocument_insert(p)
    \/ \E p \in Procs : processDocument_embed(p)
    \/ \E p \in Procs : embedChunks_embed(p)
    \/ \E p \in Procs : embedChunks_update(p, Answered)
    \/ \E p \in Procs :
          SlotIsNext(p) /\ deleteDocuments(p, Batches(DocIds, MaxRaceBatch))
    \/ \E p \in Procs : deleteDocuments_chunks(p)
    \/ \E p \in Procs : deleteDocuments_document(p, Answered)

SpecDocSeq == Init /\ [][NextDocSeq]_vars

\* The length of what is embedded and stored: on slot 1 entities are created
\* and embedded and one document is stored, chunked and embedded, on slot 2
\* generateEmbedding is called directly, in local mode or in openai mode,
\* while the provider answers with the length asked for, with another
\* length, or not at all.
DimsText == TextOfLen(MaxDocLen)
NextDims ==
    \/ initializeEmbeddingModel
    \/ generateEmbedding(2, DimsText)
    \/ NoEntities /\ createEntities(1, Batches(RaceEntityInputs, MaxRaceBatch))
    \/ createEntities_insert(1)
    \/ createEntities_embed(1)
    \/ createEntities_upsert(1)
    \/ rag_entity_embeddings = {} /\ embedAllEntities(1)
    \/ embedAllEntities_embed(1)
    \/ embedAllEntities_upsert(1, Answered)
    \/ NoDocuments /\ CanStart(1) /\ storeDocument("doc1", DimsText)
    \/ rag_chunks = {} /\ chunkDocument(1, "doc1", RaceChunkOptions)
    \/ chunkDocument_insert(1)
    \/ embedChunks(1, "doc1")
    \/ embedChunks_embed(1)
    \/ embedChunks_update(1, Answered)
    \/ providerChanges({"up", "down", "offsize"})

SpecDims == InitEmbed /\ [][NextDims]_vars

\* The graph is built and documents are stored by calls on slot 1, then
\* getDetailedContext calls are served one after another on slot 2.
NoContextYet == calls[2].pc = "idle"
NextContext ==
    \/ NoContextYet /\ createEntities(1, Batches(RaceEntityInputs, MaxRaceBatch))
    \/ createEntities_insert(1)
    \/ createEntities_embed(1)
    \/ createEntities_upsert(1)
    \/ NoContextYet
          /\ createRelations(1, Batches(ContextRelationInputs, MaxRaceBatch))
    \/ createRelations_source(1)
    \/ createRelations_target(1)
    \/ createRelations_insert(1, Answered)
    \/ \E id \in DocIds, content \in ContextTexts :
          NoContextYet /\ CanStart(1) /\ storeDocument(id, content)
    \/ \E query \in ContextQueryInputs, limit \in LimitInputs,
           includeEntities \in BOOLEAN :
          CanStart(1) /\ getDetailedContext(2, query, limit, includeEntities)
    \/ getDetailedContext_documents(2)
    \/ getDetailedContext_entities(2)

SpecContext == Init /\ [][NextContext]_vars

\* Entities are created with their embeddings, a document is stored, chunked
\* and linked to entities, and entities are deleted: calls served one after
\* another.
LinkDocument == "doc1"
NextLink ==
    \/ rag_entities = {}
          /\ createEntities(1, Batches(RaceEntityInputs, MaxBatch))
    \/ createEntities_insert(1)
    \/ createEntities_embed(1)
    \/ createEntities_upsert(1)
    \/ CanStart(1) /\ NoDocuments
          /\ storeDocument(LinkDocument, TextOfLen(MaxDocLen))
    \/ rag_chunks = {} /\ chunkDocument(1, LinkDocument, RaceChunkOptions)
    \/ chunkDocument_insert(1)
    \/ \E documentId \in DocIds :
          linkEntitiesToDocument(1, documentId, Batches(Names, MaxBatch))
    \/ linkEntitiesToDocument_chunks(1)
    \/ linkEntitiesToDocument_entity(1)
    \/ linkEntitiesToDocument_upsert(1)
    \/ deleteEntities(1, Batches(Names, MaxBatch))
    \/ deleteEntities_find(1)
    \/ deleteEntities_relationships(1)
    \/ deleteEntities_entity(1, Answered)
SpecLink == Init /\ [][NextLink]_vars

\* Graph calls are served on slot 1 and document calls on slot 2, one call at
\* a time: entities and relationships are created and relations deleted, a
\* document is stored and chunked and documents are deleted.
NoCallRunning == \A p \in Procs : CanStart(p)
NextDelete ==
    \/ NoCallRunning /\ rag_entities = {}
          /\ createEntities(1, Batches(RaceEntityInputs, MaxBatch))
    \/ createEntities_insert(1)
    \/ createEntities_embed(1)
    \/ createEntities_upsert(1)
    \/ NoCallRunning
          /\ createRelations(1, Batches(ContextRelationInputs, MaxRaceBatch))
    \/ createRelations_source(1)
    \/ createRelations_target(1)
    \/ createRelations_insert(1, Answered)
    \/ NoCallRunning /\ deleteRelations(1, Batches(RelationInputs, MaxRaceBatch))
    \/ deleteRelations_source(1)
    \/ deleteRelations_target(1)
    \/ deleteRelations_delete(1, Answered)
    \/ NoCallRunning /\ NoDocuments
          /\ storeDocument(LinkDocument, TextOfLen(MaxDocLen))
    \/ NoCallRunning /\ rag_chunks = {}
          /\ chunkDocument(2, LinkDocument, RaceChunkOptions)
    \/ chunkDocument_insert(2)
    \/ NoCallRunning /\ deleteDocuments(2, Batches(DocIds, MaxBatch))
    \/ deleteDocuments_chunks(2)
    \/ deleteDocuments_document(2, Answered)
SpecDelete == Init /\ [][NextDelete]_vars

\* ----------------------------------------------------- searchNodes, openNodes
\* the characters of an entity type
TypeText(entityType) ==
    CASE entityType = "TECHNOLOGY" ->
            <<"T", "E", "C", "H", "N", "O", "L", "O", "G", "Y">>
      [] entityType = "CONCEPT" -> <<"C", "O", "N", "C", "E", "P", "T">>

\* async searchNodes(query, limit = 10): a limit of 0 is a limit the caller
\* left out
DefaultSearchNodesLimit == 10
SearchNodesLimit(limit) == IF limit = 0 THEN DefaultSearchNodesLimit ELSE limit

\* .or(`name.ilike.%${query}%,entity_type.ilike.%${query}%`)
NameOrTypeLike(query) ==
    {e \in rag_entities :
        \/ ILike(NameText(e.name), query)
        \/ ILike(TypeText(e.entity_type), query)}

\* The whole call: one select, of whole rows, without an order
searchNodes(p, query, limit) ==
    /\ CanStart(p)
    /\ \E data \in SelectLimit(NameOrTypeLike(query), SearchNodesLimit(limit)) :
          calls' = [calls EXCEPT ![p] =
             [Idle EXCEPT !.op = "searchNodes", !.pc = "done",
                          !.query = query, !.limit = SearchNodesLimit(limit),
                          !.entities = data]]
    /\ UNCHANGED <<storeVars, envVars>>

\* .from('rag_entities').select('*').in('name', names)
EntitiesNamed(names) ==
    {e \in rag_entities : \E k \in 1..Len(names) : e.name = names[k]}

openNodes(p, names) ==
    /\ CanStart(p)
    /\ \E data \in SelectLimit(EntitiesNamed(names),
                               Cardinality(EntitiesNamed(names))) :
          calls' = [calls EXCEPT ![p] =
             [Idle EXCEPT !.op = "openNodes", !.pc = "done", !.args = names,
                          !.entities = data]]
    /\ UNCHANGED <<storeVars, envVars>>

\* ------------------------------------------------------------------ readGraph
\* .from('rag_entities').select('*'): the first of the two selects
readGraph(p) ==
    /\ CanStart(p)
    /\ \E entities \in SelectLimit(rag_entities, Cardinality(rag_entities)) :
          calls' = [calls EXCEPT ![p] =
             [Idle EXCEPT !.op = "readGraph", !.pc = "rg_relationships",
                          !.entities = entities]]
    /\ UNCHANGED <<storeVars, envVars>>

\* .from('rag_relationships').select('*'), and the call returns both lists
readGraph_relationships(p) ==
    LET c == calls[p]
    IN /\ c.pc = "rg_relationships"
       /\ \E relationships \in SelectLimit(rag_relationships,
                                           Cardinality(rag_relationships)) :
             calls' = [calls EXCEPT ![p] =
                [c EXCEPT !.relationships = relationships, !.pc = "done"]]
       /\ UNCHANGED <<storeVars, envVars>>

\* What .from('rag_stats').select('*').single() is answered with. rag_stats
\* is no table of the schema the README gives: a store set up from it answers
\* that the relation does not exist. Where a store defines it, .single()
\* gives its one row, or an error when the select brings no row or more than
\* one; and the store may fail as on any other statement.
StatsAnswers == {"row", "undefined_table", "no_row", "error"}

\* the `error` of that answer, as its message; "" when data is the row
SelectStatsError(answer) ==
    CASE answer = "undefined_table" ->
            "relation \"public.rag_stats\" does not exist"
      [] answer = "no_row" ->
            "JSON object requested, multiple (or no) rows returned"
      [] answer = "error" -> StorageErrorMessage
      [] OTHER -> ""

\* if (error) throw new Error(error.message); return data: the call returns
\* the row as it comes, and writes nothing
getKnowledgeGraphStats(p, answers) ==
    /\ CanStart(p)
    /\ \E answer \in answers :
          LET c == [Idle EXCEPT !.op = "getKnowledgeGraphStats", !.pc = "done"]
          IN calls' = [calls EXCEPT ![p] =
                IF SelectStatsError(answer) # ""
                THEN Throw(c, SelectStatsError(answer))
                ELSE c]
    /\ UNCHANGED <<storeVars, envVars>>

\* -------------------------------------------------------------- listDocuments
\* const select = includeMetadata ? '*' : 'id, created_at'
ListedColumns(doc, includeMetadata) ==
    IF includeMetadata THEN doc
    ELSE [id |-> doc.id, created_at |-> doc.created_at]

\* .order('created_at', { ascending: false })
OrderByCreatedAtDescending(rows) ==
    [k \in 1..Cardinality(rows) |->
        CHOOSE d \in rows :
            Cardinality({x \in rows : x.created_at > d.created_at}) = k - 1]

listDocuments(p, includeMetadata) ==
    LET data == OrderByCreatedAtDescending(rag_documents)
    IN /\ CanStart(p)
       /\ calls' = [calls EXCEPT ![p] =
             [Idle EXCEPT !.op = "listDocuments", !.pc = "done",
                          !.documents =
                              [k \in 1..Len(data) |->
                                  ListedColumns(data[k], includeMetadata)]]]
       /\ UNCHANGED <<storeVars, envVars>>

\* --------------------------------------------------------------- extractTerms
\* [A-Z], [a-z] and \w of a regular expression
IsUpperCase(ch) == ch \in UpperCaseLetters
IsLowerCase(ch) == ch \in LowerCaseLetters
IsWord(ch) ==
    \/ IsUpperCase(ch) \/ IsLowerCase(ch)
    \/ ch \in {"0", "1", "2", "3", "4", "5", "6", "7", "8", "9", "_"}

\* \b between the characters k and k + 1: a word character on one side only
WordBoundary(text, k) ==
    (k >= 1 /\ k <= Len(text) /\ IsWord(text[k]))
        # (k + 1 <= Len(text) /\ IsWord(text[k + 1]))

\* the last character of the run of [a-z], or of \s, that starts at k (k - 1
\* when the run is empty). What follows [a-z]+ in the expression is \s or \b
\* and what follows \s+ is [A-Z], so a match takes each run whole.
RECURSIVE LowerRunEnd(_, _)
LowerRunEnd(text, k) ==
    IF k <= Len(text) /\ IsLowerCase(text[k]) THEN LowerRunEnd(text, k + 1)
    ELSE k - 1
RECURSIVE SpaceRunEnd(_, _)
SpaceRunEnd(text, k) ==
    IF k <= Len(text) /\ IsSpace(text[k]) THEN SpaceRunEnd(text, k + 1)
    ELSE k - 1

\* [A-Z][a-z]+ at k: its last character, 0 when it does not match
CapitalizedEnd(text, k) ==
    IF k <= Len(text) /\ IsUpperCase(text[k]) /\ LowerRunEnd(text, k + 1) > k
    THEN LowerRunEnd(text, k + 1)
    ELSE 0

\* (?:\s+[A-Z][a-z]+)*\b after a word that ends at e: as many more words as
\* there are, back to the last one that ends at a \b (0 when none does)
RECURSIVE GroupsEnd(_, _, _)
GroupsEnd(text, e, best) ==
    LET found == IF WordBoundary(text, e) THEN e ELSE best
        s == SpaceRunEnd(text, e + 1)
        w == IF s > e THEN CapitalizedEnd(text, s + 1) ELSE 0
    IN IF w > 0 THEN GroupsEnd(text, w, found) ELSE found

\* the end of the match of /\b[A-Z][a-z]+(?:\s+[A-Z][a-z]+)*\b/ that starts
\* at k, 0 when there is none
MatchEnd(text, k) ==
    IF WordBoundary(text, k - 1) /\ CapitalizedEnd(text, k) > 0
    THEN GroupsEnd(text, CapitalizedEnd(text, k), 0)
    ELSE 0

\* text.match(/.../g) || []: the matches from left to right, each search
\* starting where the match before it ended
RECURSIVE MatchFrom(_, _, _)
MatchFrom(text, k, found) ==
    IF k > Len(text) THEN found
    ELSE IF MatchEnd(text, k) > 0
         THEN MatchFrom(text, MatchEnd(text, k) + 1,
                        Append(found, SubSeq(text, k, MatchEnd(text, k))))
         ELSE MatchFrom(text, k + 1, found)
Match(text) == MatchFrom(text, 1, <<>>)

\* const { minLength = 3, ... } = options: 0 is a minLength the caller left
\* out
DefaultMinLength == 3
MinLength(minLength) == IF minLength = 0 THEN DefaultMinLength ELSE minLength

\* if (term.length >= minLength) terms.add(term.trim()): a Set keeps the first
\* of equal terms; a match begins and ends with a letter, so trim changes
\* nothing
RECURSIVE TermsFrom(_, _, _, _)
TermsFrom(capitalizedWords, k, minLength, terms) ==
    IF k > Len(capitalizedWords) THEN terms
    ELSE LET term == capitalizedWords[k]
             seen == \E j \in 1..Len(terms) : terms[j] = term
         IN TermsFrom(capitalizedWords, k + 1, minLength,
                      IF Len(term) >= minLength /\ ~seen
                      THEN Append(terms, term) ELSE terms)
Terms(text, minLength, includeCapitalized) ==
    IF includeCapitalized THEN TermsFrom(Match(text), 1, minLength, <<>>)
    ELSE <<>>

\* The whole call: the select of the document's content, which throws when
\* there is no such document, and the terms of the content
extractTerms(p, documentId, minLength, includeCapitalized) ==
    LET docs == {d \in rag_documents : d.id = documentId}
        call == [Idle EXCEPT !.op = "extractTerms", !.pc = "done",
                             !.documentId = documentId]
    IN /\ CanStart(p)
       /\ calls' = [calls EXCEPT ![p] =
             IF docs = {}
             THEN [call EXCEPT !.thrown = "Document not found"]
             ELSE [call EXCEPT !.terms =
                      Terms((CHOOSE d \in docs : TRUE).content,
                            MinLength(minLength), includeCapitalized)]]
       /\ UNCHANGED <<storeVars, envVars>>

\* ---------------------------------------------------------- the tool registry
\* the names of the tool definitions getToolDefinitions returns
getToolDefinitions ==
    {"createEntities", "createRelations", "addObservations", "searchNodes",
     "openNodes", "deleteEntities", "deleteRelations", "deleteObservations",
     "processDocument", "storeDocument", "listDocuments", "deleteDocuments",
     "chunkDocument", "embedChunks", "embedAllEntities", "hybridSearch",
     "getDetailedContext", "getGraph", "getKnowledgeGraphStats",
     "extractTerms", "linkEntitiesToDocument"}

\* what getToolsForMode returns: null (every tool), a list of names, or a
\* member that the object TOOL_MODES inherits, which is neither
AllTools == [all |-> TRUE, names |-> {}, inherited |-> FALSE]
ToolList(names) == [all |-> FALSE, names |-> names, inherited |-> FALSE]
Inherited == [all |-> FALSE, names |-> {}, inherited |-> TRUE]

\* TOOL_MODES.client and TOOL_MODES.maintenance; TOOL_MODES.full is null
ClientTools ==
    {"createEntities", "createRelations", "addObservations", "searchNodes",
     "openNodes", "processDocument", "hybridSearch", "getDetailedContext",
     "getGraph", "getKnowledgeGraphStats"}
MaintenanceTools ==
    {"deleteEntities", "deleteRelations", "deleteObservations",
     "deleteDocuments", "storeDocument", "chunkDocument", "embedChunks",
     "embedAllEntities", "rebuildSearchIndex", "listDocuments",
     "extractTerms", "linkEntitiesToDocument"}
TOOL_MODES ==
    [client |-> ToolList(ClientTools),
     maintenance |-> ToolList(MaintenanceTools),
     full |-> AllTools]

\* the lower-case names of the members TOOL_MODES, an object literal, inherits
\* from Object.prototype: TOOL_MODES['constructor'] is the function Object and
\* TOOL_MODES['__proto__'] is Object.prototype
InheritedKeys == {"constructor", "__proto__"}

\* the values of the TOOLS_MODE environment variable that are tried
ToolsModeInputs ==
    {"", "client", "CLIENT", "maintenance", "full", "admin"} \cup InheritedKeys

\* (process.env.TOOLS_MODE || 'full').toLowerCase() on the values above
TOOLS_MODE(env) == ToLowerCase(IF env = "" THEN "full" ELSE env)

\* TOOL_MODES[mode.toLowerCase()]: `if (!TOOL_MODES[normalizedMode])` gives
\* null for a mode the object has no member for and for full mode, whose entry
\* is null; an own entry or an inherited member is returned as it is
getToolsForMode(toolsMode) ==
    LET normalizedMode == ToLowerCase(toolsMode)
    IN IF normalizedMode \in InheritedKeys THEN Inherited
       ELSE IF normalizedMode \in DOMAIN TOOL_MODES
                 /\ ~TOOL_MODES[normalizedMode].all
       THEN TOOL_MODES[normalizedMode]
       ELSE AllTools

\* the TypeError of `allowedTools.includes(tool.name)` on a value that has no
\* `includes`
NotAFunction == "allowedTools.includes is not a function"

\* `if (!allowedTools) return allTools`, then
\* allTools.filter(tool => allowedTools.includes(tool.name)), which throws on
\* the first tool when allowedTools is an inherited member
filterToolsByMode(allTools, toolsMode) ==
    LET allowedTools == getToolsForMode(toolsMode)
    IN IF allowedTools.all
       THEN [thrown |-> "", tools |-> allTools]
       ELSE IF allowedTools.inherited /\ allTools # {}
       THEN [thrown |-> NotAFunction, tools |-> {}]
       ELSE [thrown |-> "",
             tools |-> {tool \in allTools : tool \in allowedTools.names}]

\* the case labels of the switch in executeToolMethod
HandlerCases ==
    {"createEntities", "createRelations", "addObservations", "searchNodes",
     "openNodes", "deleteEntities", "deleteRelations", "deleteObservations",
     "processDocument", "storeDocument", "listDocuments", "deleteDocuments",
     "chunkDocument", "embedChunks", "embedAllEntities", "hybridSearch",
     "getDetailedContext", "getGraph", "readGraph", "getKnowledgeGraphStats",
     "rebuildSearchIndex", "extractTerms", "linkEntitiesToDocument"}

\* the manager method a case calls: getGraph and readGraph share one case
HandlerMethod(name) == IF name = "getGraph" THEN "readGraph" ELSE name

\* the methods class RAGKnowledgeGraphManager defines
ManagerMethods ==
    {"initialize", "initializeEmbeddingModel", "generateEmbedding",
     "generateEntityEmbeddingText", "createEntities", "createRelations",
     "addObservations", "searchNodes", "openNodes", "deleteEntities",
     "deleteRelations", "deleteObservations", "storeDocument",
     "processDocument", "listDocuments", "deleteDocuments", "chunkDocument",
     "embedChunks", "embedAllEntities", "hybridSearch", "getDetailedContext",
     "readGraph", "getKnowledgeGraphStats", "extractTerms",
     "linkEntitiesToDocument"}

\* the tool names a client may send
ToolNameInputs ==
    getToolDefinitions \cup HandlerCases \cup ClientTools
        \cup MaintenanceTools \cup {"searchIndex"}

\* The ListTools request of a server started with TOOLS_MODE = env: the
\* module computes activeTools = filterToolsByMode(allTools, TOOLS_MODE) while
\* it loads, and the request handler returns them. When the filter throws the
\* module fails to load: the process ends with the error and no request is
\* answered.
listTools(p, env) ==
    LET activeTools == filterToolsByMode(getToolDefinitions, TOOLS_MODE(env))
    IN /\ CanStart(p)
       /\ calls' = [calls EXCEPT ![p] =
             [Idle EXCEPT !.op = "listTools", !.pc = "done",
                          !.toolsMode = TOOLS_MODE(env),
                          !.thrown = activeTools.thrown,
                          !.tools = activeTools.tools]]
       /\ UNCHANGED <<storeVars, envVars>>

\* The `arguments` of a CallTool request: left out, the empty object, or an
\* object with the fields the tool reads
ArgumentShapes == {"absent", "empty", "given"}

\* the cases of executeToolMethod that read no field of args
NoArgumentCases ==
    {"embedAllEntities", "getGraph", "readGraph", "getKnowledgeGraphStats",
     "rebuildSearchIndex"}

\* the methods whose first statement reads a property of, or iterates, the
\* parameter that {} leaves undefined
ThrowsOnUndefined ==
    {"createEntities", "createRelations", "addObservations", "deleteEntities",
     "deleteRelations", "deleteObservations", "deleteDocuments",
     "hybridSearch", "getDetailedContext"}

\* what `${undefined}` gives in the filter of searchNodes
UndefinedText == <<"u", "n", "d", "e", "f", "i", "n", "e", "d">>

\* The fields a client gives. Contents: "React Native JavaScript" and "Vue or
\* Vue"; the query "react", without a limit; entities: "React" with an observation
\* and "JavaScript"; the relation from "React" to "JavaScript"; one more
\* observation on "React", and the deletion of its first
ToolTexts ==
    {<<"R", "e", "a", "c", "t", " ", "N", "a", "t", "i", "v", "e", " ", "J",
       "a", "v", "a", "S", "c", "r", "i", "p", "t">>,
     <<"V", "u", "e", " ", "o", "r", " ", "V", "u", "e">>}
ToolQueries == {<<"r", "e", "a", "c", "t">>}
ToolChunkOptions ==
    {[given |-> FALSE, maxChunkSize |-> 0, overlap |-> 0],
     [given |-> TRUE, maxChunkSize |-> 16, overlap |-> 2]}
ToolMinLengths == {0, 4}
ToolEntities ==
    {<<[name |-> "React", entityType |-> "TECHNOLOGY", observations |-> <<"o1">>],
       [name |-> "JavaScript", entityType |-> "", observations |-> <<>>]>>}
ToolRelations ==
    {<<[from |-> "React", to |-> "JavaScript", relationType |-> "BUILT_WITH"]>>}
ToolObservations == {<<[entityName |-> "React", contents |-> <<"o2">>]>>}
ToolDeletions == {<<[entityName |-> "React", observations |-> <<"o1">>]>>}
ToolNames == {<<"React">>}
ToolDocumentIds == {<<LinkDocument>>}

\* what createErrorResponse answers for an error thrown before a manager
\* method runs, or by the call of a method the manager does not have
ErrorResponse(name, method, message) ==
    [Idle EXCEPT !.op = "handleToolCall", !.pc = "done", !.tool = name,
                 !.method = method, !.isError = TRUE, !.error = message]

\* the switch of executeToolMethod on arguments that have their fields: the
\* case calls the manager method, whose statements are the actions of the
\* sections above
executeToolMethod(p, name) ==
    \/ name = "createEntities" /\ createEntities(p, ToolEntities)
    \/ name = "createRelations" /\ createRelations(p, ToolRelations)
    \/ name = "addObservations" /\ addObservations(p, ToolObservations)
    \/ name = "searchNodes"
          /\ \E query \in ToolQueries : searchNodes(p, query, 0)
    \/ name = "openNodes" /\ \E names \in ToolNames : openNodes(p, names)
    \/ name = "deleteEntities" /\ deleteEntities(p, ToolNames)
    \/ name = "deleteRelations" /\ deleteRelations(p, ToolRelations)
    \/ name = "deleteObservations" /\ deleteObservations(p, ToolDeletions)
    \/ name = "processDocument"
          /\ \E content \in ToolTexts, options \in ToolChunkOptions :
                processDocument(p, LinkDocument, content, options)
    \/ name = "storeDocument"
          /\ CanStart(p)
          /\ \E content \in ToolTexts :
                /\ rag_documents' = UpsertDocument(LinkDocument, content)
                /\ UNCHANGED <<graphVars, linkVars,
                               rag_chunks, nextChunkId, envVars>>
                /\ calls' = [calls EXCEPT ![p] =
                      [Idle EXCEPT !.op = "storeDocument", !.pc = "done",
                                   !.documentId = LinkDocument,
                                   !.content = content]]
    \/ name = "listDocuments"
          /\ listDocuments(p, FALSE)
    \/ name = "deleteDocuments" /\ deleteDocuments(p, ToolDocumentIds)
    \/ name = "chunkDocument"
          /\ \E options \in ToolChunkOptions :
                chunkDocument(p, LinkDocument, options)
    \/ name = "embedChunks" /\ embedChunks(p, LinkDocument)
    \/ name = "embedAllEntities" /\ embedAllEntities(p)
    \/ name = "hybridSearch"
          /\ \E query \in ToolQueries : hybridSearch(p, query, 0)
    \/ name = "getDetailedContext"
          /\ \E query \in ToolQueries :
                getDetailedContext(p, query, 0, TRUE)
    \/ name \in {"getGraph", "readGraph"} /\ readGraph(p)
    \/ name = "getKnowledgeGraphStats"
          /\ getKnowledgeGraphStats(p, StatsAnswers)
    \/ name = "extractTerms"
          /\ \E minLength \in ToolMinLengths :
                extractTerms(p, LinkDocument, minLength, TRUE)
    \/ name = "linkEntitiesToDocument"
          /\ linkEntitiesToDocument(p, LinkDocument, ToolNames)

\* the same switch on {}: every field the case reads is undefined. A method
\* that reads a property of its parameter, or iterates it, throws a
\* TypeError in its first statement; a method that puts the parameter into a
\* filter selects by the text "undefined"; listDocuments gets
\* `undefined !== false`. openNodes sends .in('name', undefined), a list of
\* no names, which matches no row. storeDocument upserts { metadata: {} }, a
\* row without id and content, which the store refuses, and the method throws
\* the store's message; processDocument sends the same upsert as its first
\* step, with the default chunk options, and catches what is thrown.
executeToolMethod_empty(p, name) ==
    \/ /\ name \in ThrowsOnUndefined
       /\ CanStart(p)
       /\ calls' = [calls EXCEPT ![p] =
             [Idle EXCEPT !.op = HandlerMethod(name), !.pc = "done",
                          !.thrown = "TypeError"]]
       /\ UNCHANGED <<storeVars, envVars>>
    \/ name = "searchNodes" /\ searchNodes(p, UndefinedText, 0)
    \/ name = "openNodes" /\ openNodes(p, <<>>)
    \/ name = "processDocument"
          /\ processDocument(p, UndefinedId, <<>>,
                             [given |-> FALSE, maxChunkSize |-> 0, overlap |-> 0])
    \/ name = "storeDocument"
          /\ CanStart(p)
          /\ calls' = [calls EXCEPT ![p] =
                [Idle EXCEPT !.op = "storeDocument", !.pc = "done",
                             !.documentId = UndefinedId,
                             !.thrown = UpsertDocumentError(UndefinedId)]]
          /\ UNCHANGED <<storeVars, envVars>>
    \/ name = "listDocuments" /\ listDocuments(p, TRUE)
    \/ name = "chunkDocument"
          /\ chunkDocument(p, UndefinedId,
                           [given |-> FALSE, maxChunkSize |-> 0, overlap |-> 0])
    \/ name = "embedChunks" /\ embedChunks(p, UndefinedId)
    \/ name = "extractTerms" /\ extractTerms(p, UndefinedId, 0, TRUE)
    \/ name = "linkEntitiesToDocument"
          /\ linkEntitiesToDocument(p, UndefinedId, {<<>>})

\* The CallTool request: handleToolCall awaits executeToolMethod, and the
\* request handler answers createErrorResponse for whatever is thrown. The
\* default case of the switch throws 'Unknown tool'; reading a field of
\* arguments that were left out throws a TypeError before any method is
\* called; calling a method the manager does not have throws a TypeError;
\* otherwise the manager method runs, and the call is over when the method
\* is.
handleToolCall(p, name, arguments) ==
    \/ /\ name \notin HandlerCases
       /\ CanStart(p)
       /\ calls' = [calls EXCEPT ![p] = ErrorResponse(name, "", "Unknown tool")]
       /\ UNCHANGED <<storeVars, envVars>>
    \/ /\ name \in HandlerCases \ NoArgumentCases
       /\ arguments = "absent"
       /\ CanStart(p)
       /\ calls' = [calls EXCEPT ![p] =
             ErrorResponse(name, "", "Cannot read properties of undefined")]
       /\ UNCHANGED <<storeVars, envVars>>
    \/ /\ name \in HandlerCases
       /\ name \in NoArgumentCases \/ arguments # "absent"
       /\ HandlerMethod(name) \notin ManagerMethods
       /\ CanStart(p)
       /\ calls' = [calls EXCEPT ![p] =
             ErrorResponse(name, HandlerMethod(name), "is not a function")]
       /\ UNCHANGED <<storeVars, envVars>>
    \/ /\ name \in HandlerCases \ NoArgumentCases
       /\ arguments = "empty"
       /\ executeToolMethod_empty(p, name)
    \/ /\ name \in NoArgumentCases \/ arguments = "given"
       /\ executeToolMethod(p, name)

\* the tools that write to the entity graph, and to the documents
GraphWriters ==
    {"createEntities", "createRelations", "addObservations", "deleteEntities",
     "deleteRelations", "deleteObservations", "embedAllEntities"}
DocumentWriters ==
    {"processDocument", "storeDocument", "deleteDocuments", "chunkDocument",
     "embedChunks", "linkEntitiesToDocument"}

Readers == HandlerCases \ (GraphWriters \cup DocumentWriters)

\* isError of the response to a call that is over: createErrorResponse sets
\* it for whatever handleToolCall threw
IsErrorResponse(c) == c.isError \/ c.thrown # ""

\* the graph of "React", "JavaScript" and one relation between them
GraphIsBuilt ==
    /\ \A name \in Names : \E e \in rag_entities : e.name = name
    /\ Cardinality(rag_relationships) = 1

\* One session of ListTools and CallTool requests, served one after another:
\* on the empty store, requests for unknown tools and requests whose
\* arguments are left out or empty; then the graph is written, once; then,
\* on the graph of two entities and a relation, the document is stored and
\* chunked, once. Tools that only read are called on the empty store and
\* once there are chunks.
NextTools ==
    \/ \E env \in ToolsModeInputs : NoEntities /\ NoDocuments /\ listTools(1, env)
    \/ \E name \in ToolNameInputs, arguments \in ArgumentShapes :
          /\ (name \notin HandlerCases \/ arguments # "given")
                => NoEntities /\ NoDocuments
          /\ name \in GraphWriters => NoDocuments
          /\ name \in Readers
                => (NoEntities /\ NoDocuments) \/ rag_chunks # {}
          /\ (name \in DocumentWriters /\ arguments = "given") => GraphIsBuilt
          /\ name = "createEntities" => nextEntityId = 1
          /\ name \in {"storeDocument", "processDocument"} => NoDocuments
          /\ name \in {"chunkDocument", "processDocument"} => nextChunkId = 1
          /\ name = "embedAllEntities" => rag_entity_embeddings = {}
          /\ handleToolCall(1, name, arguments)
    \/ createEntities_insert(1)
    \/ createEntities_embed(1)
    \/ createEntities_upsert(1)
    \/ createRelations_source(1)
    \/ createRelations_target(1)
    \/ createRelations_insert(1, Answered)
    \/ addObservations_find(1)
    \/ addObservations_update(1)
    \/ deleteEntities_find(1)
    \/ deleteEntities_relationships(1)
    \/ deleteEntities_entity(1, Answered)
    \/ deleteRelations_source(1)
    \/ deleteRelations_target(1)
    \/ deleteRelations_delete(1, Answered)
    \/ deleteObservations_find(1)
    \/ deleteObservations_update(1, Answered)
    \/ processDocument_store(1, Answered)
    \/ processDocument_chunk(1, Answered)
    \/ processDocument_embed(1)
    \/ chunkDocument_insert(1)
    \/ embedChunks_embed(1)
    \/ embedChunks_update(1, Answered)
    \/ embedAllEntities_embed(1)
    \/ embedAllEntities_upsert(1, Answered)
    \/ deleteDocuments_chunks(1)
    \/ deleteDocuments_document(1, Answered)
    \/ getDetailedContext_documents(1)
    \/ getDetailedContext_entities(1)
    \/ readGraph_relationships(1)
    \/ linkEntitiesToDocument_chunks(1)
    \/ linkEntitiesToDocument_entity(1)
    \/ linkEntitiesToDocument_upsert(1)
SpecTools == Init /\ [][NextTools]_vars

\* ===================================================================== claims
InCall(c, opName) == c.op = opName /\ c.pc \notin {"idle", "done"}

ArgNames(c) == {c.args[k] : k \in 1..Len(c.args)}

Touches(r, id) == r.source_entity = id \/ r.target_entity = id

\* the name of the entity row with this id ("" when there is none)
NameOfId(id) ==
    IF \E e \in rag_entities : e.id = id
    THEN (CHOOSE e \in rag_entities : e.id = id).name
    ELSE ""

\* C1: when deleteEntities lists a name E in `deleted`, no relationship row
\* whose source or target was E's row remains and E's row is gone, and no
\* step of the call changes or removes an entity that the call does not name.
C1_Step ==
    LET c == calls[1]
        d == calls'[1]
    IN InCall(c, "deleteEntities") =>
          /\ \A e \in rag_entities : e.name \notin ArgNames(c) => e \in rag_entities'
          /\ rag_entities' \subseteq rag_entities
          /\ Len(d.deleted) > Len(c.deleted) =>
                LET E == d.deleted[Len(d.deleted)]
                    row == CHOOSE e \in rag_entities : e.name = E
                IN /\ \E e \in rag_entities : e.name = E
                   /\ E = c.args[c.i]
                   /\ ~\E r \in rag_relationships' : Touches(r, row.id)
                   /\ ~\E e \in rag_entities' : e.name = E
C1_DeleteEntitiesCascades == [][C1_Step]_vars

\* a deleteEntities call has returned with "React" deleted: of the two
\* relationships that were stored, the one on "JavaScript" alone is left, and
\* "JavaScript" is still stored
C1_Witness ==
    /\ calls[1].op = "deleteEntities" /\ calls[1].pc = "done"
    /\ calls[1].deleted = <<"React">>
    /\ nextRelId = 3
    /\ \E e \in rag_entities :
          /\ e.name = "JavaScript"
          /\ \E r \in rag_relationships :
                rag_relationships = {r} /\ r.source_entity = e.id /\ r.target_entity = e.id

\* C3: a step of deleteRelations changes no entity, adds no relationship and
\* removes only relationship rows whose source name, target name and type
\* equal the requested triple.
C3_Step ==
    LET c == calls[1]
    IN InCall(c, "deleteRelations") =>
          /\ rag_entities' = rag_entities
          /\ rag_relationships' \subseteq rag_relationships
          /\ \A r \in rag_relationships \ rag_relationships' :
                /\ NameOfId(r.source_entity) = c.args[c.i].from
                /\ NameOfId(r.target_entity) = c.args[c.i].to
                /\ r.relation_type = c.args[c.i].relationType
C3_DeleteRelationsExact == [][C3_Step]_vars

\* a deleteRelations call has removed one of two stored relationships between
\* the same two entities and left the other (other type or other direction)
C3_Witness ==
    /\ calls[1].op = "deleteRelations" /\ calls[1].pc = "done"
    /\ Len(calls[1].deleted) = 1
    /\ nextRelId = 3
    /\ Cardinality(rag_relationships) = 1
    /\ Cardinality(rag_entities) = 2

\* C4: deleteObservations writes back the stored list without the elements
\* that equal a listed string, the others kept in their order; removedCount
\* is the length before minus the length after, no survivor equals a listed
\* string, and no other entity row changes.
C4_Step ==
    LET c == calls[1]
        d == calls'[1]
    IN (c.op = "deleteObservations" /\ c.pc = "do_update") =>
          LET deletion == c.args[c.i]
              listed == {deletion.observations[k] : k \in 1..Len(deletion.observations)}
              Kept(x) == x \notin listed
              old == (CHOOSE e \in rag_entities : e.name = deletion.entityName).observations
              new == (CHOOSE e \in rag_entities' : e.name = deletion.entityName).observations
              last == d.deleted[Len(d.deleted)]
          IN /\ \E e \in rag_entities : e.name = deletion.entityName
             /\ \E e \in rag_entities' : e.name = deletion.entityName
             /\ new = SelectSeq(old, Kept)
             /\ \A k \in 1..Len(new) : new[k] \notin listed
             /\ Len(d.deleted) = Len(c.deleted) + 1
             /\ last.entity = deletion.entityName
             /\ last.removedCount = Len(old) - Len(new)
             /\ \A e \in rag_entities : e.name # deletion.entityName => e \in rag_entities'
C4_DeleteObservationsExact == [][C4_Step]_vars

\* a deleteObservations call has removed both occurrences of "o1" from the
\* list of "React" and kept the "o2" that stood between them
C4_Witness ==
    LET c == calls[1]
    IN /\ c.op = "deleteObservations" /\ c.pc = "done"
       /\ c.args = <<[entityName |-> "React", observations |-> <<"o1">>]>>
       /\ c.deleted = <<[entity |-> "React", removedCount |-> 2]>>
       /\ \E e \in rag_entities : e.name = "React" /\ e.observations = <<"o2">>

\* C6: createEntities pushes one result per input entity in input order; an
\* entity whose name is already stored gets success=false with the error
\* 'Entity already exists' and the stored rows stay as they are; the loop
\* goes on to the next entity either way.
C6_Results ==
    LET c == calls[1]
    IN c.op = "createEntities" =>
          /\ Len(c.results) = IF c.pc = "ce_insert" THEN c.i - 1
                              ELSE IF c.pc \in {"ce_embed", "ce_upsert"} THEN c.i
                              ELSE Len(c.args)
          /\ \A k \in 1..Len(c.results) : c.results[k].entity = c.args[k].name
C6_Step ==
    LET c == calls[1]
        d == calls'[1]
    IN (c.op = "createEntities" /\ c.pc = "ce_insert") =>
          LET entity == c.args[c.i]
              last == d.results[Len(d.results)]
          IN /\ Len(d.results) = Len(c.results) + 1
             /\ d.op = "createEntities"
             /\ d.pc \in {"ce_insert", "ce_embed"} \/ (d.pc = "done" /\ c.i = Len(c.args))
             /\ IF \E e \in rag_entities : e.name = entity.name
                THEN /\ ~last.success
                     /\ last.error = "Entity already exists"
                     /\ rag_entities' = rag_entities
                ELSE /\ last.success
                     /\ \E e \in rag_entities' : e.name = entity.name /\ e.id = last.id
                     /\ rag_entities \subseteq rag_entities'
C6_CreateEntitiesPerItem == []C6_Results /\ [][C6_Step]_vars

\* a createEntities call of two entities has returned: the first was rejected
\* as a duplicate whose stored observations differ from the input, the second
\* was created
C6_Witness ==
    LET c == calls[1]
    IN /\ c.op = "createEntities" /\ c.pc = "done"
       /\ Len(c.args) = 2
       /\ ~c.results[1].success /\ c.results[1].error = "Entity already exists"
       /\ c.results[2].success
       /\ \E e \in rag_entities :
             e.name = c.args[1].name /\ e.observations # c.args[1].observations

\* C7: createRelations writes a relationship row only when both names resolve
\* to stored entities, and the row links exactly those two; an item with an
\* unresolved name gets the not-found error, writes nothing, and the loop
\* goes on to the next relation.
C7_Results ==
    LET c == calls[1]
    IN c.op = "createRelations" =>
          /\ Len(c.results) = IF c.pc = "done" THEN Len(c.args) ELSE c.i - 1
          /\ \A k \in 1..Len(c.results) : c.results[k].relation = c.args[k]
C7_Step ==
    LET c == calls[1]
        d == calls'[1]
    IN InCall(c, "createRelations") =>
          LET relation == c.args[c.i]
              from == SelectEntityByName(relation.from).id
              to == SelectEntityByName(relation.to).id
          IN /\ \A r \in rag_relationships' \ rag_relationships :
                   /\ from # 0 /\ to # 0
                   /\ r.source_entity = from /\ r.target_entity = to
                   /\ r.relation_type = relation.relationType
             /\ rag_relationships \subseteq rag_relationships'
             /\ (c.pc = "cr_target" /\ (from = 0 \/ to = 0)) =>
                   /\ rag_relationships' = rag_relationships
                   /\ Len(d.results) = Len(c.results) + 1
                   /\ ~d.results[Len(d.results)].success
                   /\ d.results[Len(d.results)].error = "Source or target entity not found"
                   /\ d.i = c.i + 1
             /\ c.pc = "cr_insert" =>
                   /\ Cardinality(rag_relationships') = Cardinality(rag_relationships) + 1
                   /\ d.results[Len(d.results)].success
C7_CreateRelationsEndpoints == []C7_Results /\ [][C7_Step]_vars

\* a createRelations call of two relations has returned: the first failed
\* because "React" did not resolve, the second was written
C7_Witness ==
    LET c == calls[1]
    IN /\ c.op = "createRelations" /\ c.pc = "done"
       /\ Len(c.args) = 2
       /\ ~c.results[1].success /\ c.results[2].success
       /\ c.results[1].error = "Source or target entity not found"
       /\ Cardinality(rag_relationships) = 1

\* C2: in every reachable state, with createEntities, createRelations and
\* deleteEntities calls interleaved, the source and the target of every
\* stored relationship are ids of stored entities.
C2_NoOrphanRelationship ==
    \A r \in rag_relationships :
        /\ \E e \in rag_entities : e.id = r.source_entity
        /\ \E e \in rag_entities : e.id = r.target_entity

\* C5: in every reachable state no two entity rows have the same name, under
\* any interleaving of createEntities calls with one another and with the
\* other calls; an insert of a name that is stored at that moment is rejected
\* with 'Entity already exists' and changes no row, any other insert succeeds,
\* so two calls never both hold a successful result for the same stored row.
C5_UniqueNames ==
    \A e1, e2 \in rag_entities : e1.name = e2.name => e1 = e2
C5_OneWinner ==
    \A p, q \in Procs :
        (p # q /\ calls[p].op = "createEntities" /\ calls[q].op = "createEntities") =>
            \A i \in 1..Len(calls[p].results), j \in 1..Len(calls[q].results) :
                LET a == calls[p].results[i]
                    b == calls[q].results[j]
                IN (a.success /\ b.success /\ a.entity = b.entity) =>
                      /\ a.id # b.id
                      /\ ~(\E e \in rag_entities : e.id = a.id) \/
                         ~(\E e \in rag_entities : e.id = b.id)
C5_Step ==
    \A p \in Procs :
        LET c == calls[p]
            d == calls'[p]
        IN (c.op = "createEntities" /\ c.pc = "ce_insert" /\ d # c) =>
              LET last == d.results[Len(d.results)]
              IN IF \E e \in rag_entities : e.name = c.args[c.i].name
                 THEN /\ ~last.success
                      /\ last.error = "Entity already exists"
                      /\ rag_entities' = rag_entities
                 ELSE last.success
C5_NameUniqueness == [](C5_UniqueNames /\ C5_OneWinner) /\ [][C5_Step]_vars

\* two createEntities calls are in flight for the new name "React": one has
\* inserted the only entity row ever written and is still running, the other
\* has been rejected
C5_Witness ==
    \E p, q \in Procs :
        /\ p # q
        /\ calls[p].op = "createEntities" /\ calls[p].pc = "ce_embed"
        /\ calls[p].args[1].name = "React" /\ calls[p].results[1].success
        /\ calls[q].op = "createEntities" /\ calls[q].args # <<>>
        /\ calls[q].args[1].name = "React" /\ Len(calls[q].results) = 1
        /\ ~calls[q].results[1].success
        /\ calls[q].results[1].error = "Entity already exists"
        /\ nextEntityId = 2

\* C8: for 0 <= overlap < maxChunkSize, chunkDocument returns chunks with
\* indices 0,1,2,..., chunk i starting at i*(maxChunkSize-overlap), ending at
\* min(start+maxChunkSize, len(T)) and holding T[start,end); the ranges cover
\* [0, len(T)), each chunk is stored as a row, and the 14-character text with
\* maxChunkSize=4, overlap=0 gives [0,4),[4,8),[8,12),[12,14).
ValidOptions(c) == 0 <= c.overlap /\ c.overlap < c.maxChunkSize
Returned(c, opName) == c.op = opName /\ c.pc = "done" /\ c.thrown = ""

C8_Call(c) ==
    LET T == c.text
        step == c.maxChunkSize - c.overlap
        n == Len(c.chunks)
    IN /\ \A k \in 1..n :
             LET ch == c.chunks[k]
             IN /\ ch.index = k - 1
                /\ ch.startPos = (k - 1) * step
                /\ ch.endPos = Min(ch.startPos + c.maxChunkSize, Len(T))
                /\ ch.endPos - ch.startPos <= c.maxChunkSize
                /\ Len(ch.text) = ch.endPos - ch.startPos
                /\ \A j \in 1..Len(ch.text) : ch.text[j] = T[ch.startPos + j]
                /\ \E row \in rag_chunks :
                      /\ row.document_id = c.documentId
                      /\ row.chunk_index = ch.index
                      /\ row.content = ch.text
                      /\ row.start_pos = ch.startPos
                      /\ row.end_pos = ch.endPos
       /\ \A pos \in 0..(Len(T) - 1) :
             \E k \in 1..n : c.chunks[k].startPos <= pos /\ pos < c.chunks[k].endPos
       /\ n * step >= Len(T)
       /\ n > 0 => (n - 1) * step < Len(T)
       /\ (Len(T) = 14 /\ c.maxChunkSize = 4 /\ c.overlap = 0) =>
             [k \in 1..n |-> <<c.chunks[k].startPos, c.chunks[k].endPos>>]
                = <<(<<0, 4>>), (<<4, 8>>), (<<8, 12>>), (<<12, 14>>)>>
C8_ChunkBoundaries ==
    \A p \in Procs :
        (Returned(calls[p], "chunkDocument") /\ ValidOptions(calls[p])) =>
            /\ \E d \in rag_documents :
                  d.id = calls[p].documentId /\ d.content = calls[p].text
            /\ C8_Call(calls[p])

\* the 14-character document has been chunked with maxChunkSize=4, overlap=0
\* into four chunks
C8_Witness ==
    \E p \in Procs :
        /\ Returned(calls[p], "chunkDocument")
        /\ Len(calls[p].text) = 14
        /\ calls[p].maxChunkSize = 4 /\ calls[p].overlap = 0
        /\ Len(calls[p].chunks) = 4

\* C9: chunkDocument terminates for every document and every (maxChunkSize,
\* overlap), a call with overlap >= maxChunkSize included: its loop, whose
\* start offset must advance by at least one character per pass, makes at
\* most one pass per character of the document.
C9_ChunkLoopTerminates ==
    \A p \in Procs :
        calls[p].op = "chunkDocument" => calls[p].chunkIndex <= Len(calls[p].text)

\* C10: two chunkDocument calls on the same document content with the same
\* valid (maxChunkSize, overlap) return chunk lists with the same indices,
\* boundaries and content.
C10_ChunkDeterministic ==
    \A p, q \in Procs :
        (/\ Returned(calls[p], "chunkDocument") /\ Returned(calls[q], "chunkDocument")
         /\ calls[p].text = calls[q].text
         /\ calls[p].maxChunkSize = calls[q].maxChunkSize
         /\ calls[p].overlap = calls[q].overlap
         /\ ValidOptions(calls[p]))
        => calls[p].chunks = calls[q].chunks

\* the second of two chunkDocument calls with the same options on the same
\* non-empty document has returned, with the rows of the first already stored
C10_Witness ==
    /\ Returned(calls[1], "chunkDocument") /\ Returned(calls[2], "chunkDocument")
    /\ calls[1].text = calls[2].text /\ Len(calls[1].text) > 4
    /\ calls[1].maxChunkSize = calls[2].maxChunkSize
    /\ calls[1].overlap = calls[2].overlap
    /\ ValidOptions(calls[1]) /\ calls[1].overlap > 0
    /\ Len(calls[2].chunks) > 1
    /\ Cardinality(rag_chunks) = 2 * Len(calls[2].chunks)

\* ------------------------------------------------- the document pipeline
\* the steps log of a call holds an entry of this step with this status
Logged(c, stepName, status) ==
    \E k \in 1..Len(c.steps) : c.steps[k].step = stepName /\ c.steps[k].status = status

\* C11: a processDocument call that has returned after its store step and
\* its chunk step both succeeded reports success = true, whatever the
\* embedding step did.
C11_EmbeddingNeverFatal ==
    \A p \in Procs :
        (/\ Returned(calls[p], "processDocument")
         /\ Logged(calls[p], "store", "success")
         /\ Logged(calls[p], "chunk", "success"))
        => calls[p].success

\* the chunk rows of a document
ChunksOf(documentId) == {ch \in rag_chunks : ch.document_id = documentId}

\* C12: a processDocument call on non-empty content whose storage statements
\* succeeded and for which generateEmbedding returned null at every call (so
\* that every chunk row of the document holds a null embedding at the return)
\* reports success = true, chunksCreated > 0 and embeddedChunks = 0.
C12_NullProviderEmbedsNothing ==
    \A p \in Procs :
        LET c == calls[p]
        IN (/\ Returned(c, "processDocument")
            /\ Len(c.content) > 0
            /\ Logged(c, "store", "success")
            /\ Logged(c, "chunk", "success")
            /\ \A ch \in ChunksOf(c.documentId) : ch.embedding = "null")
           => /\ c.success
              /\ c.chunksCreated > 0
              /\ c.embeddedChunks = 0

\* C13: no caller of generateEmbedding stores a null result: a step adds no
\* entity embedding row whose embedding is null and changes the embedding of
\* no chunk row to null.
C13_Step ==
    /\ \A row \in rag_entity_embeddings' \ rag_entity_embeddings :
          row.embedding # "null"
    /\ \A ch \in rag_chunks : \A ch2 \in rag_chunks' :
          (ch2.id = ch.id /\ ch2.embedding # ch.embedding) => ch2.embedding # "null"
C13_NullIsSkipped == [][C13_Step]_vars

\* C14: the steps log of a processDocument call that has returned names the
\* steps store, chunk, embed in that order, one entry per attempted step: all
\* three when the call succeeded, and when it failed the entries of the steps
\* before the failing one, each a success, followed by a failure entry of the
\* step that failed.
PipelineSteps == <<"store", "chunk", "embed">>
C14_StepsLogComplete ==
    \A p \in Procs :
        LET c == calls[p]
            n == Len(c.steps)
        IN Returned(c, "processDocument") =>
              /\ n <= Len(PipelineSteps)
              /\ \A k \in 1..n : c.steps[k].step = PipelineSteps[k]
              /\ \A k \in 1..(n - 1) : c.steps[k].status = "success"
              /\ IF c.success
                 THEN n = Len(PipelineSteps) /\ c.steps[n].status \in {"success", "skipped"}
                 ELSE n >= 1 /\ c.steps[n].status = "failure"

\* C15: processDocument never rolls back.  No step of a processDocument or
\* embedChunks call removes a chunk row, and once the store step succeeded
\* every later step of the call leaves the document stored with the content
\* given.  At the step where processDocument returns, the rows of the chunks
\* it created are stored under its document id with the text it chunked, and
\* their embeddings are null when the embed step was skipped or the call
\* failed.
CreatedChunkRows(c) ==
    {ch \in rag_chunks' : nextChunkId' - Len(c.chunks) <= ch.id /\ ch.id < nextChunkId'}
C15_Step ==
    \A p \in Procs :
        LET c == calls[p]
            d == calls'[p]
        IN (c.op \in {"processDocument", "embedChunks"} /\ c.pc # "done") =>
              /\ \A ch \in rag_chunks : \E ch2 \in rag_chunks' :
                    /\ ch2.id = ch.id /\ ch2.document_id = ch.document_id
                    /\ ch2.content = ch.content
              /\ (c.op = "processDocument" /\ Logged(d, "store", "success")) =>
                    \E doc \in rag_documents' :
                        doc.id = c.documentId /\ doc.content = c.content
              /\ (c.op = "processDocument" /\ d.pc = "done") =>
                    /\ Cardinality(CreatedChunkRows(d)) = Len(d.chunks)
                    /\ \A k \in 1..Len(d.chunks) : \E ch \in CreatedChunkRows(d) :
                          /\ ch.document_id = c.documentId
                          /\ ch.chunk_index = d.chunks[k].index
                          /\ ch.content = d.chunks[k].text
                    /\ (Logged(d, "embed", "skipped") \/ ~d.success) =>
                          \A ch \in CreatedChunkRows(d) : ch.embedding = "null"
C15_NoRollback == [][C15_Step]_vars

\* processDocument chunked a document into two chunks or more while the
\* model was not initialized and returned with the embed step skipped; after
\* a new initialization a later embedChunks call on the same id has embedded
\* every one of those chunks
C15_Witness ==
    /\ Returned(calls[1], "processDocument") /\ calls[1].success
    /\ Logged(calls[1], "embed", "skipped")
    /\ calls[1].chunksCreated > 1
    /\ Returned(calls[2], "embedChunks")
    /\ calls[2].documentId = calls[1].documentId
    /\ calls[2].embeddedChunks = calls[1].chunksCreated
    /\ \A ch \in ChunksOf(calls[1].documentId) : ch.embedding = "vector"
    /\ Cardinality(ChunksOf(calls[1].documentId)) = calls[1].chunksCreated

\* ------------------------------------------------- the embedding adapter
\* C16: a generateEmbedding call never raises; it returns null when the model
\* is not initialized or the provider call failed (it threw, or its answer
\* lacks a field), and a vector otherwise.
ProviderFailed(response) ==
    \/ response.throws
    \/ ~response.hasData
    \/ response.data = <<>>
    \/ ~response.data[1].hasEmbedding
C16_Step ==
    \A p \in Procs :
        LET d == calls'[p]
        IN (d # calls[p] /\ d.op = "generateEmbedding") =>
              /\ d.pc = "done" /\ d.thrown = ""
              /\ d.embedding.kind =
                    IF ~modelInitialized \/ ProviderFailed(d.response)
                    THEN "null" ELSE "vector"
C16_NeverRaises == [][C16_Step]_vars

StoredVectors ==
    {ch \in rag_chunks : ch.embedding = "vector"}
        \cup {r \in rag_entity_embeddings : r.embedding = "vector"}

NoLongToken(query) ==
    ~\E k \in 1..(Len(query) - 2) : \A j \in k..(k + 2) : ~IsSpace(query[j])

\* C18: a hybridSearch call whose query has no whitespace-separated token of
\* 3 or more characters returns an empty list, raises no error and has sent
\* no query to storage.
C18_NoKeywordsNoQuery ==
    \A p \in Procs :
        LET c == calls[p]
        IN c.op = "hybridSearch" /\ c.pc = "done" /\ NoLongToken(c.query)
           => c.results = <<>> /\ c.thrown = "" /\ ~c.queried

\* hybridSearch("a to") has returned on a store with a document that
\* contains the token "a"
C18_Witness ==
    \E p \in Procs :
        /\ calls[p].op = "hybridSearch" /\ calls[p].pc = "done"
        /\ calls[p].query = <<"a", " ", "t", "o">>
        /\ calls[p].results = <<>> /\ ~calls[p].queried
        /\ \E doc \in rag_documents : Includes(doc.content, <<"a">>)

\* ---------------------------------------------------------------------- C19
\* How many distinct keywords of the query the content contains, whatever
\* the case
DistinctCount(content, keywords) ==
    Cardinality({kw \in {keywords[k] : k \in DOMAIN keywords} :
                    Includes(ToLowerCaseText(content), kw)})
\* Where the select returned the document
FetchIndex(c, id) == CHOOSE k \in DOMAIN c.data : c.data[k].id = id
InResults(c, id) == \E k \in DOMAIN c.results : c.results[k].id = id
ResultIndex(c, id) == CHOOSE k \in DOMAIN c.results : c.results[k].id = id

C19_Step ==
    \A p \in Procs :
        LET c == calls'[p]
            count(doc) == DistinctCount(doc.content, c.keywords)
        IN calls[p] # c /\ c.op = "hybridSearch" /\ c.queried /\ ~content_tsv
           => /\ Len(c.results) <= c.limit
              /\ \A i, j \in DOMAIN c.results :
                    i < j =>
                      \/ count(c.results[i]) > count(c.results[j])
                      \/ /\ count(c.results[i]) = count(c.results[j])
                         /\ FetchIndex(c, c.results[i].id)
                              < FetchIndex(c, c.results[j].id)
              /\ \A A, B \in rag_documents :
                    /\ Cardinality({c.keywords[k] : k \in DOMAIN c.keywords}) = 3
                    /\ count(A) = 3 /\ count(B) = 1
                    /\ InResults(c, B.id)
                    => InResults(c, A.id)
                       /\ ResultIndex(c, A.id) < ResultIndex(c, B.id)

\* C19: without the full-text index, hybridSearch returns at most `limit`
\* documents, ordered by how many distinct keywords of the query each contains
\* (larger counts first, equal counts in the order they were fetched), and a
\* stored document with 3 of 3 keywords is ranked above one with 1 of 3.
C19_FallbackRanking == [][C19_Step]_vars

\* ---------------------------------------------------------------------- C20
C20_Step ==
    \A p \in Procs :
        LET c == calls'[p]
        IN calls[p] # c /\ c.op = "hybridSearch" /\ c.queried
           => /\ c.strategy \in {"fts", "ilike"}
              /\ calls[p].op = "idle"
                    => c.strategy = IF content_tsv THEN "fts" ELSE "ilike"
              /\ calls[p].op = "hybridSearch" /\ calls[p].queried
                    => c.strategy = calls[p].strategy

\* C20: hybridSearch takes its strategy from a probe of the store made once
\* in the process and kept: the first search of the process uses the
\* full-text index when the store has it and the keyword fallback when it has
\* not, and a later search uses the strategy of the search before it.
C20_StrategyFromCachedProbe == [][C20_Step]_vars

\* ---------------------------------------------------------------------- C21
\* The stored entities behind the entity rows a getDetailedContext call
\* returned
MatchedEntityIds(c) ==
    {e.id : e \in {x \in rag_entities :
                      \E k \in DOMAIN c.entities : c.entities[k].name = x.name}}

C21_Step ==
    \A p \in Procs :
        LET c == calls'[p]
        IN (calls[p] # c /\ c.op = "getDetailedContext" /\ c.pc = "done"
               /\ c.includeEntities)
           => /\ \A k \in DOMAIN c.relationships :
                    c.relationships[k].source_entity \in MatchedEntityIds(c)
              /\ Len(c.relationships) <= c.limit
              /\ (c.limit >= 1 /\ \E r \in rag_relationships :
                                     r.source_entity \in MatchedEntityIds(c))
                 => c.relationships # <<>>

\* C21: getDetailedContext with includeEntities returns only relationships
\* whose source is a matched entity, at most `limit` of them, and at least one
\* when a matched entity is the source of a stored relationship and limit >= 1.
C21_RelationshipsOfMatchedSources == [][C21_Step]_vars

\* ---------------------------------------------------------------------- C22
\* What hybridSearch can return for the query and the limit on the documents
\* stored now
HybridSearchResults(query, limit) ==
    IF Len(Keywords(query)) = 0 THEN {<<>>}
    ELSE {SearchResults(data, Keywords(query), limit) :
             data \in SelectLimit(OrConditions(Keywords(query)), limit * 2)}
\* The documents of a list, by id, in the order of the list
DocumentIds(documents) == [k \in DOMAIN documents |-> documents[k].id]

C22_Step ==
    \A p \in Procs :
        LET c == calls'[p]
        IN (calls[p] # c /\ c.op = "getDetailedContext" /\ c.pc = "done")
           => DocumentIds(c.documents)
                 \in {DocumentIds(results) :
                        results \in HybridSearchResults(c.query, c.limit)}

\* C22: the documents of getDetailedContext are a result of hybridSearch for
\* the same query, limit and stored documents: the same documents in the same
\* order.
C22_DocumentsAsHybridSearch == [][C22_Step]_vars

\* ---------------------------------------------------------------------- C23
\* The observation list the store holds for the entity with this id
StoredObservations(entities, id) ==
    (CHOOSE e \in entities : e.id = id).observations
HasValue(list, value) == \E k \in DOMAIN list : list[k] = value

C23_Step ==
    \A p \in Procs :
        LET c == calls[p]
            item == c.args[c.i]
            before == StoredObservations(rag_entities, c.entity.id)
            after == StoredObservations(rag_entities', c.entity.id)
        IN (c.pc \in {"ao_update", "do_update"} /\ calls'[p] # c)
           => /\ c.pc = "ao_update"
                   => /\ Len(calls'[p].results) = Len(c.results) + 1
                      /\ calls'[p].results[Len(calls'[p].results)].success
              /\ c.pc = "do_update"
                   => Len(calls'[p].deleted) = Len(c.deleted) + 1
              /\ before = c.entity.observations
                   => /\ c.pc = "ao_update" => after = before \o item.contents
                      /\ c.pc = "do_update"
                           => /\ \A v \in ObsValues :
                                    HasValue(after, v) <=>
                                       (HasValue(before, v)
                                          /\ ~HasValue(item.observations, v))
                              /\ Len(after) <= Len(before)

\* C23: an observation call writes back the list it read, changed: it reports
\* success whatever happened to the stored list in between, and when no other
\* write came between its read and its write the stored list afterwards is
\* the stored list before with this call's change (the values added at the
\* end, or the listed values gone and the others kept).
C23_LastWriteWins == [][C23_Step]_vars

\* Two addObservations calls on "React" interleaved between read and write:
\* both reported success, one for "o1" and one for "o2", and the stored list
\* has "o2" but not "o1"
C23_Witness ==
    /\ \A p \in Procs :
          /\ calls[p].op = "addObservations" /\ calls[p].pc = "done"
          /\ Len(calls[p].results) = 1 /\ calls[p].results[1].success
    /\ calls[1].args[1].contents = <<"o1">>
    /\ calls[2].args[1].contents = <<"o2">>
    /\ \E e \in rag_entities :
          /\ e.name = "React"
          /\ HasValue(e.observations, "o2") /\ ~HasValue(e.observations, "o1")

\* ---------------------------------------------------------------------- C24
\* How many items of the list are this value
CountOf(list, value) == Cardinality({k \in DOMAIN list : list[k] = value})
\* The names a deleteObservations call reported in `deleted`
DeletedEntities(c) == [k \in DOMAIN c.deleted |-> c.deleted[k].entity]

\* The entities and the relations a call reported in `errors`
ErrorEntities(c) == [k \in DOMAIN c.errors |-> c.errors[k].entity]
ErrorRelations(c) == [k \in DOMAIN c.errors |-> c.errors[k].relation]

\* The call has returned without throwing
ReturnedFrom(c, opName) == c.op = opName /\ c.pc = "done" /\ c.thrown = ""

\* C24: when a batch call returns, every item of its input has exactly one
\* outcome, whether its statements were carried out, were refused or failed:
\* createEntities and createRelations have pushed one result per item, in
\* input order; deleteEntities, deleteRelations and deleteObservations have
\* put every item in exactly one of deleted, notFound and errors; embedChunks
\* and embedAllEntities have gone through every selected row and counted it at
\* most once.
C24_PerItemOutcome ==
    \A p \in Procs :
        LET c == calls[p]
        IN /\ ReturnedFrom(c, "createEntities")
                => /\ Len(c.results) = Len(c.args)
                   /\ \A k \in DOMAIN c.args : c.results[k].entity = c.args[k].name
           /\ ReturnedFrom(c, "createRelations")
                => /\ Len(c.results) = Len(c.args)
                   /\ \A k \in DOMAIN c.args : c.results[k].relation = c.args[k]
           /\ ReturnedFrom(c, "deleteEntities")
                => \A name \in Names :
                      CountOf(c.args, name)
                         = CountOf(c.deleted, name) + CountOf(c.notFound, name)
                             + CountOf(ErrorEntities(c), name)
           /\ ReturnedFrom(c, "deleteRelations")
                => \A rel \in RelationInputs :
                      CountOf(c.args, rel)
                         = CountOf(c.deleted, rel) + CountOf(c.notFound, rel)
                             + CountOf(ErrorRelations(c), rel)
           /\ ReturnedFrom(c, "deleteObservations")
                => \A name \in Names :
                      CountOf([k \in DOMAIN c.args |-> c.args[k].entityName], name)
                         = CountOf(DeletedEntities(c), name)
                             + CountOf(c.notFound, name)
                             + CountOf(ErrorEntities(c), name)
           /\ (ReturnedFrom(c, "embedChunks") \/ ReturnedFrom(c, "embedAllEntities"))
                => /\ c.rows = {} /\ c.selected = {}
                   /\ c.embeddedChunks <= c.totalChunks
                   /\ c.embeddedChunks >= 0

\* deleteEntities has returned from a batch of two names whose first delete
\* failed, reported in errors, and whose second was carried out, reported in
\* deleted
C24_Witness ==
    \E p \in Procs :
        /\ ReturnedFrom(calls[p], "deleteEntities")
        /\ Len(calls[p].args) = 2
        /\ ErrorEntities(calls[p]) = <<calls[p].args[1]>>
        /\ calls[p].deleted = <<calls[p].args[2]>>

\* ---------------------------------------------------------------------- C25
C25_Step ==
    /\ \A ch \in rag_chunks' : \E d \in rag_documents' : d.id = ch.document_id
    /\ \A p \in Procs :
          (calls[p].pc = "dd_document" /\ calls'[p] # calls[p]
             /\ Len(calls'[p].deleted) > Len(calls[p].deleted))
          => ~\E ch \in rag_chunks' :
                 ch.document_id = calls'[p].deleted[Len(calls'[p].deleted)]

\* C25: after every step every chunk's document_id is the id of a stored
\* document, and when deleteDocuments reports an id in `deleted` no chunk
\* with that document_id is stored.
C25_ChunksHaveDocuments == [][C25_Step]_vars

\* deleteDocuments(["doc1"]) has returned with "doc1" deleted, no document and
\* no chunk is stored, and a chunkDocument call on "doc1" that was in flight
\* has had an insert refused: it has made more passes than it has chunks
C25_Witness ==
    \E p, q \in Procs :
        /\ ReturnedFrom(calls[p], "deleteDocuments")
        /\ calls[p].deleted = <<"doc1">>
        /\ NoDocuments /\ rag_chunks = {}
        /\ calls[q].op = "chunkDocument"
        /\ calls[q].chunkIndex > Len(calls[q].chunks)

\* ---------------------------------------------------------------------- C26
\* C26: when no call is in flight, the chunks of every stored document have
\* the indices 0, 1, ..., one chunk per index, and the content of each chunk
\* is the document's content between the chunk's start and end offsets.
C26_ChunksMatchDocument ==
    (\A p \in Procs : CanStart(p))
    => \A d \in rag_documents :
          LET chs == ChunksOf(d.id)
          IN /\ \A a, b \in chs : a # b => a.chunk_index # b.chunk_index
             /\ {ch.chunk_index : ch \in chs} = 0..(Cardinality(chs) - 1)
             /\ \A ch \in chs :
                   ch.content = Substring(d.content, ch.start_pos, ch.end_pos)

\* ---------------------------------------------------------------------- C27
C27_Step ==
    /\ \A e \in rag_entities' :
          Cardinality({row \in rag_entity_embeddings' : row.entity_id = e.id}) <= 1
    /\ \A p \in Procs :
          calls'[p] # calls[p]
          => \A row \in rag_entity_embeddings' \ rag_entity_embeddings :
                row.embedding_text = calls'[p].embeddingText

\* C27: after every step of createEntities and embedAllEntities calls each
\* entity has at most one embedding row, and a row that a step writes has as
\* embedding_text the text the call passed to generateEmbedding.
C27_OneEmbeddingPerEntity == [][C27_Step]_vars
\* ---------------------------------------------------------------------- C28
\* the names TOOL_MODES lists for some mode
ListedTools == ClientTools \cup MaintenanceTools

\* C28: every tool name that a tool mode lists or that the call handler
\* dispatches is servable: the server advertises it in the mode that lists
\* it and, when it serves every definition, advertises every name the handler
\* dispatches (each has a definition); and a call of it is never answered
\* 'Unknown tool' or 'is not a function': it reaches a method the manager
\* defines.
C28_RegistryServable ==
    \A p \in Procs :
        LET c == calls[p]
        IN /\ (c.op = "listTools" /\ c.toolsMode \in {"client", "maintenance"})
                 => TOOL_MODES[c.toolsMode].names \subseteq c.tools
           /\ (c.op = "listTools" /\ getToolsForMode(c.toolsMode).all)
                 => HandlerCases \subseteq c.tools
           /\ (c.op = "handleToolCall"
                    /\ c.tool \in ListedTools \cup HandlerCases)
                 => /\ c.error \notin {"Unknown tool", "is not a function"}
                    /\ c.method = ""
\* ---------------------------------------------------------------------- C29
\* the rows of the two tables that carry an entity id
EmbeddingsOf(entity_id) == {r \in rag_entity_embeddings : r.entity_id = entity_id}
LinksOf(entity_id) == {r \in rag_chunk_entities : r.entity_id = entity_id}

\* C29 as it is stated: the delete statement of deleteEntities removes the
\* entity's row and reports the name in deleted whatever rows carry the
\* entity's id, and leaves those rows in place.
C29_OriginalStep ==
    LET c == calls[1]
        d == calls'[1]
    IN (InCall(c, "deleteEntities") /\ c.pc = "de_entity") =>
          /\ ~\E e \in rag_entities' : e.id = c.entity.id
          /\ d.deleted = Append(c.deleted, c.args[c.i])
          /\ rag_entity_embeddings' = rag_entity_embeddings
          /\ rag_chunk_entities' = rag_chunk_entities
C29_Step ==
    LET c == calls[1]
        d == calls'[1]
    IN InCall(c, "deleteEntities") =>
          /\ rag_entity_embeddings' = rag_entity_embeddings
          /\ rag_chunk_entities' = rag_chunk_entities
          /\ rag_documents' = rag_documents
          /\ rag_chunks' = rag_chunks
          /\ Len(d.deleted) > Len(c.deleted) =>
                /\ ~\E e \in rag_entities' : e.id = c.entity.id
                /\ EmbeddingsOf(c.entity.id) = {}
                /\ LinksOf(c.entity.id) \subseteq rag_chunk_entities'
          /\ (c.pc = "de_entity" /\ EmbeddingsOf(c.entity.id) # {}) =>
                /\ rag_entities' = rag_entities
                /\ d.deleted = c.deleted
                /\ ErrorEntities(d) = Append(ErrorEntities(c), c.args[c.i])
Resolves(name) == SelectEntityByName(name).id # 0

\* C30: deleteRelations pushes a relation onto notFound only when one of its
\* endpoint names does not resolve, and once both resolve the delete statement
\* pushes it onto deleted whether or not a relationship row matched;
\* deleteDocuments leaves notFound empty, and its delete statement pushes the
\* id onto deleted whether or not there was such a document. Neither reports
\* an error while storage reports none.
C30_Step ==
    \A p \in Procs :
        LET c == calls[p]
            d == calls'[p]
            item == c.args[c.i]
        IN /\ InCall(c, "deleteRelations") =>
                 /\ Len(d.notFound) > Len(c.notFound) =>
                        /\ d.notFound = Append(c.notFound, item)
                        /\ ~Resolves(item.from) \/ ~Resolves(item.to)
                 /\ (c.pc = "dr_target" /\ Resolves(item.from)
                         /\ Resolves(item.to)) => d.pc = "dr_delete"
                 /\ c.pc = "dr_delete" => d.deleted = Append(c.deleted, item)
                 /\ d.errors = <<>>
           /\ InCall(c, "deleteDocuments") =>
                 /\ d.notFound = <<>>
                 /\ c.pc = "dd_document" => d.deleted = Append(c.deleted, item)
                 /\ d.errors = <<>>
C30_DeletedWithoutMatch == [][C30_Step]_vars

\* deleteRelations has returned a relation between two stored entities as
\* deleted although no relationship was ever stored, and deleteDocuments has
\* returned "doc2" as deleted although no document of that id was ever stored
C30_Witness ==
    /\ ReturnedFrom(calls[1], "deleteRelations")
    /\ Len(calls[1].deleted) = 1 /\ calls[1].notFound = <<>>
    /\ Resolves(calls[1].deleted[1].from) /\ Resolves(calls[1].deleted[1].to)
    /\ nextRelId = 1
    /\ ReturnedFrom(calls[2], "deleteDocuments")
    /\ calls[2].deleted = <<"doc2">> /\ calls[2].notFound = <<>>
    /\ calls[2].errors = <<>>
====
